---- MODULE Spec2Model ----
(***************************************************************************)
(* A model of the VL1 node control plane (network-hypervisor/src/vl1/      *)
(* node.rs), of the ZSSP fragment reassembler (zssp/src/fragged.rs) and of *)
(* the ZSSP session identifier (zssp/src/sessionid.rs).                    *)
(*                                                                         *)
(* The module holds several specifications over one set of variables:      *)
(*   SpecFragged  the reassembler, driven by arbitrary assemble() calls    *)
(*   SpecPaths    canonical_path from concurrent threads and path service  *)
(*   SpecRoots    root sets from administrators and the wire, root sync    *)
(*   SpecPeers    the peer table under root sync and peer service          *)
(*   SpecOnline   best-root selection and the online state over time       *)
(*   SpecWhois    the WHOIS queue and its retry sweep                      *)
(*   SpecForward  ingress of datagrams addressed to another node           *)
(*   SpecLocal    ingress of datagrams addressed to this node              *)
(*   SpecSession  the constructors and conversions of SessionId            *)
(*   SpecLocks    the locks ingress threads and the background driver take *)
(*   SpecTick     scheduler ticks: gates, root sync, the root HELLO round  *)
(*   SpecSweep    the path-service sweep against ingress for this node     *)
(*   SpecSync     root sync step by step against changes of the root sets  *)
(* Each specification leaves the variables of the other parts untouched.   *)
(*                                                                         *)
(* Node::do_background_tasks runs up to six independently gated sections   *)
(* one after the other.  Each section is an action of its own here; a tick *)
(* in which several gates fire is the sequence of their actions.           *)
(***************************************************************************)
EXTENDS Integers, Sequences, FiniteSets, TLC

(***************************************************************************)
(* Bounds of the model                                                     *)
(***************************************************************************)

\* Generic parameter MAX_FRAGMENTS of Fragged<Fragment, MAX_FRAGMENTS>.
MAX_FRAGMENTS == 3

\* Number of assemble() calls explored; every call carries a fresh fragment.
MaxCalls == 3

\* Ingress threads calling canonical_path concurrently
NumThreads == 2

\* Path-service sweeps explored
MaxSweeps == 1

\* Last clock tick explored
MaxTime == 3

\* Packet buffers handed to whois()
MaxPackets == 3

\* Datagrams for this node explored
MaxDatagrams == 2

VARIABLES
    \* -- fragment reassembler
    have,        \* Fragged.have: u64 bitmap, as the set of its one-bits
    counter,     \* Fragged.counter
    frags,       \* Fragged.frags: slot -> fragment id, or Uninit
    needsDrop,   \* needs_drop::<Fragment>() of the instantiation
    dropCount,   \* fragment id -> number of assume_init_drop calls on it
    nextFrag,    \* id of the fragment the next assemble() call carries
    lastCall,    \* arguments, pre-state and result of the latest assemble()
    run,         \* the calls made since the reassembler last held nothing
    written,     \* what became of the writes: per slot the counter it was last written
                 \* with, the fragments written since the counter last changed, the
                 \* fragments handed out, whether the counter was assembled already
    \* -- path table
    paths,          \* Node.paths: the entries (key, Arc<Path>) of the hash map
    pathsReaders,   \* threads that hold a read guard of Node.paths between steps
    nextPath,       \* next path object to allocate
    ifLetKeepsGuard, \* whether the scrutinee's read guard lives through the else block
    tpc,            \* per thread: position in canonical_path
    targ,           \* per thread: arguments of the running or last call
    tres,           \* per thread: the Arc<Path> the last call returned
    spc,            \* position of the path-service sweep
    dead_paths,     \* the sweep's dead_paths
    need_keepalive, \* the sweep's need_keepalive
    keepalives,     \* paths the last sweep sent a keepalive on
    sweeps,         \* sweeps started
    removedPaths,   \* path objects the sweep removed from the table
    scanned,        \* what the running sweep's first loop saw of each path, and when
    \* -- root manager
    now,         \* HostSystem::time_ticks()
    peers,       \* Node.peers: address -> peer (a peer is named by its identity)
    hello,       \* peer -> Peer.last_hello_reply_time_ticks
    roots,       \* Node.roots: RootInfo { sets, roots, this_root_sets, sets_modified, online }
    best_root,   \* Node.best_root
    events,      \* what the latest operation passed to HostSystem::event, in order
    lastOp,      \* the latest operation and what it returned
    lastOnline,  \* the boolean of the latest Online event, None before the first
    wirePending, \* a wire update replaced a root set and no root sync has run since
    \* -- WHOIS queue
    whois_queue, \* Node.whois_queue: address -> WhoisQueueItem
    whoisSent,   \* the addresses the latest operation passed to send_whois
    age,         \* address -> retry sweeps its entry has survived
    released,    \* packet buffers dropped by the queue
    nextPacket,  \* next packet buffer to hand to whois()
    lastWhois,   \* the latest operation on the queue
    \* -- ingress
    lastIngress, \* the latest datagram, what became of it and what was forwarded
    \* -- ingress of datagrams for this node
    debugAssertions, \* whether the build has cfg(debug_assertions)
    reasm,           \* path -> the fragments Path holds for reassembly
    last_receive,    \* path -> the time log_receive_anything stored last
    lastLocal        \* the latest datagram for this node and what became of it

fragVars == <<have, counter, frags, needsDrop, dropCount, nextFrag, lastCall, run, written>>

pathVars == <<paths, pathsReaders, nextPath, ifLetKeepsGuard, tpc, targ, tres,
              spc, dead_paths, need_keepalive, keepalives, sweeps, removedPaths, scanned>>

rootVars == <<now, peers, hello, roots, best_root, events, lastOp, lastOnline, wirePending>>

whoisVars == <<whois_queue, whoisSent, age, released, nextPacket, lastWhois>>

ingressVars == <<lastIngress>>

localVars == <<debugAssertions, reasm, last_receive, lastLocal>>

\* Session identifiers
VARIABLES
    bigEndian,   \* the build targets a big-endian host
    word,        \* the u64 handed to the constructors, bytes 1..6 the array
    sid          \* the latest construction: which, whether it panicked, its result

sessionVars == <<bigEndian, word, sid>>

\* Locks of the node
VARIABLES
    lpc,         \* per thread: the lock operations of the call it runs, and its position
    guards       \* per thread: the guards it holds, as pairs <<lock, mode>>

lockVars == <<lpc, guards>>

\* Scheduler ticks
VARIABLES
    helloSent,   \* root -> endpoint -> HELLOs the latest tick sent there
    lastTick,    \* the gates of the latest tick
    rpc,         \* position of the driver in the root_sync section, taken step by step
    synced       \* root sync's locals: old_root_identities, new_roots, my_root_sets

tickVars == <<helloSent, lastTick, rpc, synced>>

vars == <<fragVars, pathVars, rootVars, whoisVars, ingressVars, localVars, sessionVars, lockVars, tickVars>>

\* What the actions of each part leave alone
notFragged == <<pathVars, rootVars, whoisVars, ingressVars, localVars, sessionVars, lockVars, tickVars>>
notPaths == <<fragVars, rootVars, whoisVars, ingressVars, localVars, sessionVars, lockVars, tickVars>>
notRoots == <<fragVars, pathVars, whoisVars, ingressVars, localVars, sessionVars, lockVars, tickVars>>
notWhois == <<fragVars, pathVars, rootVars, ingressVars, localVars, sessionVars, lockVars, tickVars>>
notIngress == <<fragVars, pathVars, rootVars, whoisVars, localVars, sessionVars, lockVars, tickVars>>

(***************************************************************************)
(* Fragment reassembler: zssp/src/fragged.rs                               *)
(***************************************************************************)

\* Message counters offered to assemble(); a fresh reassembler has counter 0
Counters == {0, 1}

\* A slot of the zeroed array that no fragment was written to
Uninit == 0
NoCall == [valid |-> FALSE]
NoneRet == [some |-> FALSE]

Bits == 0..63
Slots == 0..(MAX_FRAGMENTS - 1)
FragIds == 1..MaxCalls

\* u64::wrapping_shr on a bitmap held as its set of one-bits
WrappingShr(bitset, n) == {b - (n % 64) : b \in {x \in bitset : x >= (n % 64)}}

\* 1u64.wrapping_shl(n)
OneShl(n) == {n % 64}

\* A want mask one bit too wide
WantTooWide(fragment_count) == WrappingShr(Bits, 63 - fragment_count)

\* let want = 0xffffffffffffffffu64.wrapping_shr((64 - fragment_count) as u32);
Want(fragment_count) == WrappingShr(Bits, 64 - fragment_count)

\* An acceptance test without the bound on fragment_count
AcceptedUnbounded(fragment_no, fragment_count) == fragment_no < fragment_count

\* if fragment_no < fragment_count && (fragment_count as usize) <= MAX_FRAGMENTS
Accepted(fragment_no, fragment_count) ==
    fragment_no < fragment_count /\ fragment_count <= MAX_FRAGMENTS

\* The fragments tracked by a bitmap h over slot array f
Held(h, f) == {f[i] : i \in h \cap Slots}

\* A counter change that forgets the held slots without dropping them
ResetForgets(h, f, nd) == {}

\* The counter-change branch: every slot whose bit is set is dropped (when the
\* fragment type needs dropping) and the local bitmap ends up empty.
ResetDrops(h, f, nd) == IF nd THEN Held(h, f) ELSE {}

\* A counter change that keeps the bitmap
HaveKept(h, reset) == h

\* let mut have = self.have; and what the counter-change branch leaves of it:
\* shifted out bit by bit, or set to 0
HaveAfterReset(h, reset) == IF reset THEN {} ELSE h

\* A completion test that is content with any wanted slot
CompleteAny(h, want) == (h \cap want) # {}

\* (have & want) == want
Complete(h, want) == (h \cap want) = want

\* Assembled(transmute_copy(&self.frags), fragment_count)
Assembled(f, fragment_count) == [some |-> TRUE, frags |-> f, len |-> fragment_count]

\* Assembled::as_ref: the first `len` elements
AsRef(a) == [i \in 0..(a.len - 1) |-> a.frags[i]]

\* The run of calls since the reassembler last held nothing is followed only
\* while every call is accepted and carries the counter and fragment_count of
\* the first one and a fragment_no not seen before in the run.
BrokenRun == <<NoCall>>

SameMessage(r, call) ==
    /\ r # <<>> /\ r[1].valid
    /\ call.counter = r[1].counter
    /\ call.fragment_count = r[1].fragment_count
    /\ \A k \in 1..Len(r) : r[k].fragment_no # call.fragment_no

\* No slot of a new reassembler was written to
NothingWritten ==
    [with |-> [i \in Slots |-> NoneRet], since |-> {}, handed |-> {}, assembled |-> FALSE]

InitFragged ==
    /\ have = {}
    /\ counter = 0
    /\ frags = [i \in Slots |-> Uninit]
    /\ needsDrop \in BOOLEAN
    /\ dropCount = [id \in FragIds |-> 0]
    /\ nextFrag = 1
    /\ lastCall = NoCall
    /\ run = <<>>
    /\ written = NothingWritten

\* A reassembler nobody calls
IdleFragged == InitFragged /\ needsDrop = FALSE

\* Fragged::assemble(counter, fragment, fragment_no, fragment_count)
assemble(c, fragment, fragment_no, fragment_count) ==
    LET reset == c # counter
        have1 == HaveAfterReset(have, reset)
        drops == IF reset THEN ResetDrops(have, frags, needsDrop) ELSE {}
        frags1 == [frags EXCEPT ![fragment_no] = fragment]
        want == Want(fragment_count)
        have2 == have1 \cup OneShl(fragment_no)
        done == Complete(have2, want)
        ret == IF Accepted(fragment_no, fragment_count) /\ done
                 THEN Assembled(frags1, fragment_count) ELSE NoneRet
        call == [valid |-> TRUE, counter |-> c, fragment |-> fragment,
                 fragment_no |-> fragment_no, fragment_count |-> fragment_count,
                 haveBefore |-> have, counterBefore |-> counter,
                 heldBefore |-> Held(have, frags), ret |-> ret]
    IN  /\ IF Accepted(fragment_no, fragment_count)
             THEN /\ counter' = c
                  /\ frags' = frags1
                  /\ have' = IF done THEN {} ELSE have2
                  /\ dropCount' = [id \in FragIds |->
                                     IF id \in drops THEN dropCount[id] + 1 ELSE dropCount[id]]
             ELSE UNCHANGED <<counter, frags, have, dropCount>>
        /\ lastCall' = call
        /\ run' = IF ~Accepted(fragment_no, fragment_count) THEN BrokenRun
                  ELSE IF have = {} THEN <<call>>
                  ELSE IF SameMessage(run, call) THEN Append(run, call)
                  ELSE BrokenRun
        /\ written' =
              IF ~Accepted(fragment_no, fragment_count) THEN written
              ELSE [with |-> [written.with EXCEPT ![fragment_no] = [some |-> TRUE, v |-> c]],
                    since |-> (IF reset THEN {} ELSE written.since) \cup {fragment},
                    handed |-> written.handed \cup
                               (IF done THEN {frags1[i] : i \in 0..(fragment_count - 1)} ELSE {}),
                    assembled |-> done \/ (~reset /\ written.assembled)]
        /\ UNCHANGED needsDrop

Assemble ==
    /\ nextFrag <= MaxCalls
    /\ \E c \in Counters, fragment_no \in 0..MAX_FRAGMENTS,
          fragment_count \in 0..(MAX_FRAGMENTS + 1) :
            assemble(c, nextFrag, fragment_no, fragment_count)
    /\ nextFrag' = nextFrag + 1
    /\ UNCHANGED notFragged


(***************************************************************************)
(* Path table: Node::canonical_path and the path-service sweep of          *)
(* Node::do_background_tasks, network-hypervisor/src/vl1/node.rs           *)
(***************************************************************************)

\* Endpoints and local sockets seen on the wire.  The local interface a path
\* is created with is not part of its key and is left out.
Endpoints == {"e1"}
LocalSockets == {"s1", "s2"}

Threads == 1..NumThreads
MaxPathIds == Cardinality(Endpoints) * Cardinality(LocalSockets) * (MaxSweeps + 1)
PathIds == 1..MaxPathIds
NoPath == 0
NoArg == [ep |-> "", ls |-> ""]

\* enum PathKey { Copied(Endpoint, LocalSocket), Ref(&Endpoint, &LocalSocket) }
PathKeyCopied(ep, ls) == [kind |-> "Copied", ep |-> ep, ls |-> ls]
PathKeyRef(ep, ls) == [kind |-> "Ref", ep |-> ep, ls |-> ls]

\* impl Hash for PathKey: both variants hash the endpoint, then the socket
PathKeyHash(k) == <<k.ep, k.ls>>

\* impl PartialEq for PathKey: all four variant pairs compare endpoint and socket
PathKeyEq(k1, k2) == k1.ep = k2.ep /\ k1.ls = k2.ls

\* PathKey::to_copied
ToCopied(k) == PathKeyCopied(k.ep, k.ls)

\* HashMap lookup: the entries whose key hashes like k and equals k
Lookup(table, k) == {e \in table : PathKeyHash(e.key) = PathKeyHash(k) /\ PathKeyEq(e.key, k)}

\* HashMap::get(k).cloned()
Get(table, k) == IF Lookup(table, k) = {} THEN NoPath ELSE (CHOOSE e \in Lookup(table, k) : TRUE).path

\* No sweep is running
NoScan == [seen |-> <<>>, at |-> 0]

\* An ingress thread logged a receive on path p after the running sweep had
\* classified the paths
ReceivedSince(p) ==
    /\ scanned # NoScan
    /\ lastLocal.valid
    /\ lastLocal.result = "returned"
    /\ lastLocal.path = p
    /\ lastLocal.buffer >= scanned.at

\* A removal that spares a key whose path was received on since the scan
RemoveStillDead(table, k) ==
    IF \E e \in {x \in table : PathKeyEq(x.key, k)} : ReceivedSince(e.path) THEN table
    ELSE table \ {x \in table : PathKeyEq(x.key, k)}

\* HashMap::remove(k)
Remove(table, k) == table \ Lookup(table, k)

\* An insertion that replaces whatever the table holds for the key
InsertAlways(table, k, fresh) == (table \ Lookup(table, k)) \cup {[key |-> k, path |-> fresh]}

\* HashMap::entry(k).or_insert_with(|| fresh): the table afterwards
OrInsertWith(table, k, fresh) ==
    IF Lookup(table, k) = {} THEN table \cup {[key |-> k, path |-> fresh]} ELSE table

InitPaths ==
    /\ paths = {}
    /\ pathsReaders = {}
    /\ nextPath = 1
    /\ ifLetKeepsGuard \in BOOLEAN
    /\ tpc = [t \in Threads |-> "idle"]
    /\ targ = [t \in Threads |-> NoArg]
    /\ tres = [t \in Threads |-> NoPath]
    /\ spc = "idle"
    /\ dead_paths = {}
    /\ need_keepalive = {}
    /\ keepalives = {}
    /\ sweeps = 0
    /\ removedPaths = {}
    /\ scanned = NoScan

\* A path table nobody uses
IdlePaths == InitPaths /\ ifLetKeepsGuard = FALSE

\* canonical_path, the probe under shared access:
\*   if let Some(path) = self.paths.read().get(&PathKey::Ref(ep, local_socket)) { path.clone() }
\* The read guard is a temporary of the `if let` scrutinee.  Up to edition 2021
\* it is dropped at the end of the whole `if let` expression, so it is still
\* held in the else block; from edition 2024 on it is dropped before the else
\* block.  ifLetKeepsGuard is which of the two the build does.
CanonicalPathHit ==
    \E t \in Threads, ep \in Endpoints, ls \in LocalSockets :
    /\ tpc[t] = "idle"
    /\ Get(paths, PathKeyRef(ep, ls)) # NoPath
    /\ tpc' = [tpc EXCEPT ![t] = "done"]
    /\ targ' = [targ EXCEPT ![t] = [ep |-> ep, ls |-> ls]]
    /\ tres' = [tres EXCEPT ![t] = Get(paths, PathKeyRef(ep, ls))]
    /\ UNCHANGED <<paths, pathsReaders, nextPath, ifLetKeepsGuard,
                   spc, dead_paths, need_keepalive, keepalives, sweeps, removedPaths, scanned, notPaths>>

CanonicalPathMiss ==
    \E t \in Threads, ep \in Endpoints, ls \in LocalSockets :
    /\ tpc[t] = "idle"
    /\ nextPath <= MaxPathIds
    /\ Get(paths, PathKeyRef(ep, ls)) = NoPath
    /\ tpc' = [tpc EXCEPT ![t] = "else"]
    /\ targ' = [targ EXCEPT ![t] = [ep |-> ep, ls |-> ls]]
    /\ tres' = [tres EXCEPT ![t] = NoPath]
    /\ pathsReaders' = IF ifLetKeepsGuard THEN pathsReaders \cup {t} ELSE pathsReaders
    /\ UNCHANGED <<paths, nextPath, ifLetKeepsGuard,
                   spc, dead_paths, need_keepalive, keepalives, sweeps, removedPaths, scanned, notPaths>>

\* canonical_path, the else block under exclusive access, which is granted
\* only when no read guard is held:
\*   self.paths.write().entry(PathKey::Copied(..)).or_insert_with(|| Arc::new(Path::new(ep, local_socket, local_interface, time_ticks))).clone()
CanonicalPathInsert ==
    \E t \in Threads :
    /\ tpc[t] = "else"
    /\ pathsReaders = {}
    /\ LET k == PathKeyCopied(targ[t].ep, targ[t].ls)
           created == Lookup(paths, k) = {}
       IN  /\ paths' = OrInsertWith(paths, k, nextPath)
           /\ tres' = [tres EXCEPT ![t] = Get(paths', k)]
           /\ nextPath' = IF created THEN nextPath + 1 ELSE nextPath
    /\ tpc' = [tpc EXCEPT ![t] = "done"]
    /\ UNCHANGED <<pathsReaders, ifLetKeepsGuard, targ,
                   spc, dead_paths, need_keepalive, keepalives, sweeps, removedPaths, scanned, notPaths>>

\* The caller is done with the returned path and may call again
CanonicalPathReturn ==
    \E t \in Threads :
    /\ tpc[t] = "done"
    /\ tpc' = [tpc EXCEPT ![t] = "idle"]
    /\ tres' = [tres EXCEPT ![t] = NoPath]
    /\ targ' = [targ EXCEPT ![t] = NoArg]
    /\ UNCHANGED <<paths, pathsReaders, nextPath, ifLetKeepsGuard,
                   spc, dead_paths, need_keepalive, keepalives, sweeps, removedPaths, scanned, notPaths>>

\* A sweep that asks path.service whatever the socket is
NeedsKeepaliveAnySocket(valid, result) == result = "NeedsKeepalive"

\* path_service, first loop: a path goes to need_keepalive when its socket is
\* valid and path.service answers NeedsKeepalive ...
NeedsKeepalive(valid, result) == valid /\ result = "NeedsKeepalive"

\* ... and to dead_paths when path.service answers Dead or its socket is not
\* valid
DeadPath(valid, result) == ~valid \/ result = "Dead"

\* path_service, first loop under shared access: classify every path.
\* validSockets is what local_socket_is_valid answers, result what
\* path.service(time_ticks) answers for each path.
PathServiceScan ==
    /\ spc = "idle"
    /\ sweeps < MaxSweeps
    /\ \E validSockets \in SUBSET LocalSockets,
          result \in [paths -> {"Ok", "Dead", "NeedsKeepalive"}] :
            /\ dead_paths' = {ToCopied(e.key) : e \in
                                {x \in paths : DeadPath(x.key.ls \in validSockets, result[x])}}
            /\ need_keepalive' = {e.path : e \in
                                {x \in paths : NeedsKeepalive(x.key.ls \in validSockets, result[x])}}
            /\ scanned' = [seen |-> [x \in paths |->
                                        IF x.key.ls \in validSockets
                                          THEN [valid |-> TRUE, result |-> result[x]]
                                          ELSE [valid |-> FALSE, result |-> "not asked"]],
                            at |-> nextPacket]
    /\ spc' = "remove"
    /\ sweeps' = sweeps + 1
    /\ keepalives' = {}
    /\ UNCHANGED <<paths, pathsReaders, nextPath, ifLetKeepsGuard, tpc, targ, tres,
                   removedPaths, notPaths>>

\* path_service, second loop: for dp in dead_paths.iter() { self.paths.write().remove(dp); }
PathServiceRemove ==
    /\ spc = "remove"
    /\ pathsReaders = {}
    /\ \E dp \in dead_paths :
        /\ paths' = Remove(paths, dp)
        /\ removedPaths' = removedPaths \cup {e.path : e \in Lookup(paths, dp)}
        /\ dead_paths' = dead_paths \ {dp}
    /\ UNCHANGED <<pathsReaders, nextPath, ifLetKeepsGuard, tpc, targ, tres,
                   spc, need_keepalive, keepalives, sweeps, scanned, notPaths>>

\* path_service, third loop: wire_send of the keepalive byte on every path of need_keepalive
PathServiceKeepalive ==
    /\ spc = "remove"
    /\ dead_paths = {}
    /\ keepalives' = need_keepalive
    /\ need_keepalive' = {}
    /\ spc' = "idle"
    /\ scanned' = NoScan
    /\ UNCHANGED <<paths, pathsReaders, nextPath, ifLetKeepsGuard, tpc, targ, tres,
                   dead_paths, sweeps, removedPaths, notPaths>>

(***************************************************************************)
(* Root manager: Node::add_update_root_set, Node::remote_update_root_set,  *)
(* the root_sync section of Node::do_background_tasks and                  *)
(* Node::update_best_root, network-hypervisor/src/vl1/node.rs              *)
(***************************************************************************)

\* ROOT_HELLO_INTERVAL, in clock ticks of the model
ROOT_HELLO_INTERVAL == 1

\* The value of last_hello_reply_time_ticks of a peer that never replied
NEVER_HAPPENED_TICKS == -8

\* Option<T>
None == [some |-> FALSE]
Some(x) == [some |-> TRUE, v |-> x]

\* Identities: an address and the keys it was derived from.  Two identities
\* with the same address and different keys collide.
Ident(a, k) == [address |-> a, key |-> k]
SelfIdentity == Ident("S", 1)
Addresses == {"S", "A", "B", "C"}
Identities == {Ident("S", 1), Ident("S", 2), Ident("A", 1), Ident("A", 2), Ident("B", 1), Ident("C", 1)}
NoPeer == Ident("", 0)

\* Identities for which Peer::new returns None (key agreement with them fails)
BadIdentities == {Ident("C", 1)}

\* Peer::new(&self.identity, identity, time_ticks)
PeerNew(id) == IF id \in BadIdentities THEN None ELSE Some(id)

\* Root set members { identity, endpoints: Option<..> }
Root(id, eps) == [identity |-> id, endpoints |-> eps]

\* The member vectors of the root sets offered to the node under each name
MemberLists(name) ==
    IF name = "x"
      THEN {<<Root(Ident("S", 1), Some({"e1"}))>>,
            <<Root(Ident("A", 1), Some({"e1"}))>>,
            <<Root(Ident("A", 1), None)>>,
            <<Root(Ident("S", 1), Some({"e1"})), Root(Ident("A", 1), Some({"e1"}))>>,
            <<Root(Ident("A", 1), Some({"e1"})), Root(Ident("C", 1), Some({"e1"}))>>}
      ELSE {<<Root(Ident("S", 2), Some({"e1"}))>>,
            <<Root(Ident("A", 2), Some({"e2"}))>>,
            <<Root(Ident("B", 1), Some({"e1"}))>>}

\* The verified root sets an administrator or a remote node may present
RootSetNames == {"x", "y"}
Revisions(name) == IF name = "x" THEN {1, 2} ELSE {1}
RootSets ==
    UNION {[name : {n}, revision : Revisions(n), members : MemberLists(n)] : n \in RootSetNames}

\* RootSet::zerotier_default(): the built-in root set
ZerotierDefault ==
    [name |-> "zerotier-default", revision |-> 1,
     members |-> <<Root(Ident("A", 1), Some({"e1"})), Root(Ident("B", 1), Some({"e1"}))>>]

\* RootSet::should_replace(previous): same name and a newer revision
should_replace(rs, previous) == rs.name = previous.name /\ rs.revision > previous.revision

\* entry.members.iter().any(|m| m.identity.eq(received_from))
IsMember(id, rs) == \E i \in 1..Len(rs.members) : rs.members[i].identity = id

\* A wire update taken from anybody
AcceptFromAnyone(sets, received_from, rs) ==
    rs.name \in DOMAIN sets /\ should_replace(rs, sets[rs.name])

\* remote_update_root_set: the condition under which the entry is replaced
AcceptRemote(sets, received_from, rs) ==
    /\ rs.name \in DOMAIN sets
    /\ IsMember(received_from, sets[rs.name])
    /\ should_replace(rs, sets[rs.name])

\* HashMap insert / replace of one key
MapPut(f, k, v) == [x \in (DOMAIN f) \cup {k} |-> IF x = k THEN v ELSE f[x]]

\* Event::*
SecurityWarning(kind, a) == [type |-> "SecurityWarning", kind |-> kind, address |-> a]
UpdatedRoots(old, new) == [type |-> "UpdatedRoots", old |-> old, new |-> new]
Online(b) == [type |-> "Online", online |-> b]

SeqToSet(q) == {q[i] : i \in 1..Len(q)}

InitRoots ==
    /\ now = 1
    /\ peers = [a \in Addresses |-> NoPeer]
    /\ hello = [id \in Identities |-> NEVER_HAPPENED_TICKS]
    /\ roots = [sets |-> <<>>, roots |-> <<>>, this_root_sets |-> None,
                sets_modified |-> FALSE, online |-> FALSE]
    /\ best_root = None
    /\ events = <<>>
    /\ lastOp = [op |-> "new"]
    /\ lastOnline = None
    /\ wirePending = FALSE

\* A node whose root manager nobody drives
IdleRoots == InitRoots

\* An add_update_root_set that takes whatever it is given
AddUpdateAlways(sets, rs) == TRUE

\* add_update_root_set: what it returns, true on the two paths that store rs
AddUpdateReturns(sets, rs) ==
    IF rs.name \in DOMAIN sets
      THEN IF should_replace(rs, sets[rs.name]) THEN TRUE ELSE FALSE
      ELSE TRUE

\* pub fn add_update_root_set(&self, rs) -> bool
AddUpdateRootSet ==
    \E rs \in RootSets :
    /\ IF AddUpdateReturns(roots.sets, rs)
         THEN roots' = [roots EXCEPT !.sets = MapPut(roots.sets, rs.name, rs),
                                     !.sets_modified = TRUE]
         ELSE roots' = roots
    /\ lastOp' = [op |-> "add_update_root_set", rs |-> rs, ret |-> AddUpdateReturns(roots.sets, rs)]
    /\ events' = <<>>
    /\ UNCHANGED <<now, peers, hello, best_root, lastOnline, wirePending, notRoots>>

\* pub fn has_roots_defined(&self) -> bool
HasRootsDefined == \E n \in DOMAIN roots.sets : roots.sets[n].members # <<>>

\* pub fn init_default_roots(&self) -> bool
InitDefaultRoots ==
    /\ IF ~HasRootsDefined
         THEN /\ roots' = [roots EXCEPT !.sets = MapPut(roots.sets, ZerotierDefault.name, ZerotierDefault),
                                        !.sets_modified = TRUE]
              /\ lastOp' = [op |-> "init_default_roots", ret |-> TRUE]
         ELSE /\ roots' = roots
              /\ lastOp' = [op |-> "init_default_roots", ret |-> FALSE]
    /\ events' = <<>>
    /\ UNCHANGED <<now, peers, hello, best_root, lastOnline, wirePending, notRoots>>

\* The nodes root sets arrive from over the wire: members of the offered sets,
\* one of each key of address A and one whose identity does not validate
Senders == {Ident("A", 1), Ident("A", 2), Ident("C", 1)}

\* pub(crate) fn remote_update_root_set(&self, received_from, rs)
\* lastOp notes what held of the sets before the call.
RemoteUpdateRootSet ==
    \E received_from \in Senders, rs \in RootSets :
    /\ roots' = IF AcceptRemote(roots.sets, received_from, rs)
                  THEN [roots EXCEPT !.sets = MapPut(roots.sets, rs.name, rs),
                                     !.sets_modified = TRUE]
                  ELSE roots
    /\ lastOp' = [op |-> "remote_update_root_set",
                  existed |-> rs.name \in DOMAIN roots.sets,
                  member |-> \E n \in DOMAIN roots.sets :
                                n = rs.name /\ received_from \in
                                    {roots.sets[n].members[i].identity : i \in 1..Len(roots.sets[n].members)},
                  newer |-> \E n \in DOMAIN roots.sets :
                                n = rs.name /\ rs.revision > roots.sets[n].revision]
    /\ events' = <<>>
    /\ wirePending' = (wirePending \/ AcceptRemote(roots.sets, received_from, rs))
    /\ UNCHANGED <<now, peers, hello, best_root, lastOnline, notRoots>>

\* The order in which a HashMap hands out its entries is arbitrary
Orders(S) == {q \in [1..Cardinality(S) -> S] : \A i, j \in 1..Cardinality(S) : q[i] = q[j] => i = j}

\* for (_, rs) in roots.sets.iter() { for m in rs.members.iter() { .. } }
RECURSIVE FlattenMembers(_, _)
FlattenMembers(sets, order) ==
    IF order = <<>> THEN <<>>
    ELSE [i \in 1..Len(sets[Head(order)].members) |->
             [rs |-> sets[Head(order)], m |-> sets[Head(order)].members[i]]]
         \o FlattenMembers(sets, Tail(order))

\* rs.to_bytes(): the serialized fields of the root set
ToBytes(rs) == <<rs.name, rs.revision, rs.members>>

\* self.peers.read().get(&m.identity.address).map_or(false, |p| !p.identity.eq(&m.identity))
PeerDiffers(peerTable, id) == peerTable[id.address] # NoPeer /\ peerTable[id.address] # id

\* Root sync, first loop: own membership and the address collision check.
\* acc = [check: address -> identity, collisions: Vec<Address>, mine: Option<Vec<u8>>]
RECURSIVE CollisionLoop(_, _, _, _)
CollisionLoop(list, i, peerTable, acc) ==
    IF i > Len(list) THEN acc
    ELSE LET m == list[i].m
             a == m.identity.address
             old == IF a \in DOMAIN acc.check THEN Some(acc.check[a]) ELSE None
             inserted == [acc EXCEPT !.check = MapPut(acc.check, a, m.identity)]
         IN  IF m.identity = SelfIdentity
               THEN CollisionLoop(list, i + 1, peerTable,
                        [acc EXCEPT !.mine = Some((IF acc.mine.some THEN acc.mine.v ELSE <<>>)
                                                  \o <<ToBytes(list[i].rs)>>)])
             ELSE IF PeerDiffers(peerTable, m.identity)
               THEN CollisionLoop(list, i + 1, peerTable,
                        [acc EXCEPT !.collisions = Append(acc.collisions, a)])
             ELSE IF old.some /\ old.v # m.identity
               THEN CollisionLoop(list, i + 1, peerTable,
                        [inserted EXCEPT !.collisions = Append(acc.collisions, a)])
             ELSE CollisionLoop(list, i + 1, peerTable, inserted)

\* A root sync that hands Peer::new its two identities the wrong way round
RootPeerSwapped(tbl, identity) ==
    IF tbl[identity.address] # NoPeer
      THEN Some(tbl[identity.address])
      ELSE PeerNew(SelfIdentity)

\* Root sync, the peer of a member: peers.get(&m.identity.address), else
\* Peer::new(.., m.identity, ..) put in the table by entry().or_insert_with();
\* None if there is no peer and the identity does not make one.
RootPeer(tbl, identity) ==
    IF tbl[identity.address] # NoPeer
      THEN Some(tbl[identity.address])
      ELSE PeerNew(identity)

\* Root sync, second loop: the new roots map, creating peers where needed.
\* The table ends with the member's peer under the member's address, which
\* for a peer that was found is the entry that was there.
\* acc = [new_roots: peer -> endpoints, bad: Vec<Identity>, peers: the peer table]
RECURSIVE BuildLoop(_, _, _, _)
BuildLoop(list, i, address_collisions, acc) ==
    IF i > Len(list) THEN acc
    ELSE LET m == list[i].m
             a == m.identity.address
         IN  IF m.endpoints.some /\ a \notin address_collisions /\ m.identity # SelfIdentity
               THEN LET peer == RootPeer(acc.peers, m.identity)
                    IN  IF peer.some
                          THEN BuildLoop(list, i + 1, address_collisions,
                                   [acc EXCEPT !.new_roots = MapPut(acc.new_roots, peer.v, m.endpoints.v),
                                               !.peers = [acc.peers EXCEPT ![a] = peer.v]])
                        ELSE BuildLoop(list, i + 1, address_collisions,
                                   [acc EXCEPT !.bad = Append(acc.bad, m.identity)])
             ELSE BuildLoop(list, i + 1, address_collisions, acc)

\* update_best_root, the selection loop: the greatest last_hello_reply_time_ticks
\* above the initial 0
LatestHelloReply(rootPeers, h) ==
    IF {r \in rootPeers : h[r] > 0} = {} THEN 0
    ELSE CHOOSE t \in {h[r] : r \in rootPeers} : \A r \in rootPeers : h[r] <= t

\* A selection loop that ends with whichever root that replied it saw last
BestChoicesAny(rootPeers, h) ==
    IF {r \in rootPeers : h[r] > 0} = {} THEN {None}
    ELSE {Some(r) : r \in {x \in rootPeers : h[x] > 0}}

\* ... and the roots the loop can end with as best, whatever the iteration order
BestChoices(rootPeers, h) ==
    IF {r \in rootPeers : h[r] > 0} = {} THEN {None}
    ELSE {Some(r) : r \in {x \in rootPeers : h[x] = LatestHelloReply(rootPeers, h)}}

\* An online test that still counts a reply exactly two intervals old
IsOnlineInclusive(time_ticks, latest_hello_reply, best) ==
    (time_ticks - latest_hello_reply) <= (ROOT_HELLO_INTERVAL * 2) /\ best.some

\* (time_ticks - latest_hello_reply) < (ROOT_HELLO_INTERVAL * 2) && best.is_some()
IsOnline(time_ticks, latest_hello_reply, best) ==
    (time_ticks - latest_hello_reply) < (ROOT_HELLO_INTERVAL * 2) /\ best.some

\* An Online(true) event on every tick that finds the node online
OnlineEventsRepeated(was_online, is_online) ==
    IF is_online THEN <<Online(TRUE)>>
    ELSE IF was_online THEN <<Online(FALSE)>>
    ELSE <<>>

\* update_best_root, the tail: an event only when roots.online changes
OnlineEvents(was_online, is_online) ==
    IF is_online
      THEN IF ~was_online THEN <<Online(TRUE)>> ELSE <<>>
      ELSE IF was_online THEN <<Online(FALSE)>> ELSE <<>>

\* A root sync that swaps the roots in whenever it rebuilt them
RootsChangedAlways(old_root_identities, new_root_identities) == TRUE

\* if !old_root_identities.eq(&new_root_identities)
RootsChanged(old_root_identities, new_root_identities) ==
    old_root_identities # new_root_identities

Warnings(kind, addrs) == [i \in 1..Len(addrs) |-> SecurityWarning(kind, addrs[i])]

\* The root_sync section of do_background_tasks: rebuild the roots from the
\* sets when they were modified, then update_best_root.
RootSyncSection ==
    \E order \in Orders(DOMAIN roots.sets) :
      LET rebuilt == roots.sets_modified
          list == FlattenMembers(roots.sets, order)
          c == CollisionLoop(list, 1, peers, [check |-> <<>>, collisions |-> <<>>, mine |-> None])
          b == BuildLoop(list, 1, SeqToSet(c.collisions),
                         [new_roots |-> <<>>, bad |-> <<>>, peers |-> peers])
          old_root_identities == DOMAIN roots.roots
          new_root_identities == DOMAIN b.new_roots
          swap == rebuilt /\ RootsChanged(old_root_identities, new_root_identities)
          roots1 == IF swap
                      THEN [roots EXCEPT !.sets_modified = FALSE, !.roots = b.new_roots,
                                         !.this_root_sets = c.mine]
                      ELSE [roots EXCEPT !.sets_modified = FALSE]
          syncEvents == IF rebuilt
                          THEN Warnings("collision", c.collisions)
                               \o Warnings("bad identity", [i \in 1..Len(b.bad) |-> b.bad[i].address])
                               \o (IF swap THEN <<UpdatedRoots(old_root_identities, new_root_identities)>>
                                   ELSE <<>>)
                          ELSE <<>>
          rootPeers == DOMAIN roots1.roots
          latest_hello_reply == LatestHelloReply(rootPeers, hello)
      IN  \E best \in BestChoices(rootPeers, hello) :
            LET is_online == IsOnline(now, latest_hello_reply, best)
                onlineEvents == OnlineEvents(roots.online, is_online)
            IN  /\ peers' = IF rebuilt THEN b.peers ELSE peers
                /\ best_root' = best
                /\ roots' = [roots1 EXCEPT !.online = is_online]
                /\ events' = syncEvents \o onlineEvents
                /\ lastOnline' = IF onlineEvents # <<>> THEN Some(onlineEvents[1].online) ELSE lastOnline
                /\ lastOp' = [op |-> "root_sync", rebuilt |-> rebuilt, rotated |-> wirePending,
                              created |-> {a \in Addresses : rebuilt /\ peers[a] = NoPeer /\ b.peers[a] # NoPeer}]
                /\ wirePending' = FALSE

\* A tick of do_background_tasks on which only the root_sync gate fires
RootSync == RootSyncSection /\ UNCHANGED <<now, hello, notRoots>>

\* A HELLO reply from a peer arrives: Peer stores the current time in
\* last_hello_reply_time_ticks
HelloReply ==
    \E a \in Addresses :
    /\ peers[a] # NoPeer
    /\ hello[peers[a]] # now
    /\ hello' = [hello EXCEPT ![peers[a]] = now]
    /\ events' = <<>>
    /\ lastOp' = [op |-> "hello_reply"]
    /\ UNCHANGED <<now, peers, roots, best_root, lastOnline, wirePending, notRoots>>

\* A peer service that drops every peer whose service() returned false
DeadPeerIdle(serviced, is_root) == ~serviced

\* if !peer.service(host_system, self, time_ticks) && !roots.roots.contains_key(peer)
DeadPeer(serviced, is_root) == ~serviced /\ ~is_root

\* do_background_tasks, the peer_service section. Peer::service is not part
\* of the node: alive is the set of addresses whose peer returned true.
PeerService ==
    \E alive \in SUBSET {a \in Addresses : peers[a] # NoPeer} :
    LET dead_peers == {a \in Addresses :
                          /\ peers[a] # NoPeer
                          /\ DeadPeer(a \in alive, peers[a] \in DOMAIN roots.roots)}
    IN  /\ peers' = [a \in Addresses |-> IF a \in dead_peers THEN NoPeer ELSE peers[a]]
        /\ events' = <<>>
        /\ lastOp' = [op |-> "peer_service", alive |-> alive, dead_peers |-> dead_peers]
        /\ UNCHANGED <<now, hello, roots, best_root, lastOnline, wirePending, notRoots>>

\* The monotonic clock of the host advances
AdvanceClock ==
    /\ now < MaxTime
    /\ now' = now + 1
    /\ events' = <<>>
    /\ lastOp' = [op |-> "clock"]
    /\ UNCHANGED <<peers, hello, roots, best_root, lastOnline, wirePending, notRoots>>

(***************************************************************************)
(* WHOIS queue: Node::whois and the whois_queue_retry section of           *)
(* Node::do_background_tasks, network-hypervisor/src/vl1/node.rs           *)
(***************************************************************************)

\* Protocol constants
WHOIS_RETRY_COUNT_MAX == 4
WHOIS_MAX_WAITING_PACKETS == 2

\* Addresses whose identity is looked up
WhoisAddresses == {"A", "C"}

\* RingBuffer::add: the oldest element makes room when the ring is full
RingAdd(ring, p) ==
    IF Len(ring) < WHOIS_MAX_WAITING_PACKETS THEN Append(ring, p) ELSE Append(Tail(ring), p)

\* What RingBuffer::add overwrites
RingEvicted(ring) == IF Len(ring) < WHOIS_MAX_WAITING_PACKETS THEN {} ELSE {Head(ring)}

\* WhoisQueueItem::default()
WhoisQueueItemDefault == [waiting_packets |-> <<>>, retry_count |-> 0]

\* A sweep that gives up one retry early
RetainedStrict(qi) == qi.retry_count < WHOIS_RETRY_COUNT_MAX

\* whois_queue.retain(|_, qi| qi.retry_count <= WHOIS_RETRY_COUNT_MAX)
Retained(qi) == qi.retry_count <= WHOIS_RETRY_COUNT_MAX

InitWhois ==
    /\ whois_queue = <<>>
    /\ whoisSent = {}
    /\ age = [a \in WhoisAddresses |-> 0]
    /\ released = {}
    /\ nextPacket = 1
    /\ lastWhois = [op |-> "new"]

IdleWhois == InitWhois

\* A whois that asks again on every call
FirstRequestAlways(qi) == TRUE

\* whois: if qi.retry_count > 0 { return; } else { qi.retry_count += 1; }
FirstRequest(qi) == ~(qi.retry_count > 0)

\* fn whois(&self, host_system, address, waiting_packet)
whois(address, waiting_packet) ==
    LET created == address \notin DOMAIN whois_queue
        qi0 == IF created THEN WhoisQueueItemDefault ELSE whois_queue[address]
        qi1 == IF waiting_packet.some
                 THEN [qi0 EXCEPT !.waiting_packets = RingAdd(qi0.waiting_packets, waiting_packet.v)]
                 ELSE qi0
        first == FirstRequest(qi1)
        qi2 == IF first THEN [qi1 EXCEPT !.retry_count = qi1.retry_count + 1] ELSE qi1
    IN  /\ whois_queue' = MapPut(whois_queue, address, qi2)
        /\ released' = IF waiting_packet.some THEN released \cup RingEvicted(qi0.waiting_packets)
                       ELSE released
        /\ whoisSent' = IF first THEN {address} ELSE {}
        /\ age' = IF created THEN [age EXCEPT ![address] = 0] ELSE age
        /\ lastWhois' = [op |-> "whois", address |-> address, created |-> created,
                         packet |-> waiting_packet]

\* A lookup is started, with or without a packet that waits for it
Whois ==
    \E address \in WhoisAddresses, with_packet \in BOOLEAN :
    /\ nextPacket <= MaxPackets
    /\ whois(address, IF with_packet THEN Some(nextPacket) ELSE None)
    /\ nextPacket' = nextPacket + 1
    /\ UNCHANGED notWhois

\* The whois_queue_retry section of do_background_tasks
WhoisQueueRetry ==
    LET kept == {a \in DOMAIN whois_queue : Retained(whois_queue[a])}
        need_whois == kept
    IN  /\ whois_queue' = [a \in kept |-> [whois_queue[a] EXCEPT !.retry_count = @ + 1]]
        /\ whoisSent' = need_whois
        /\ released' = released \cup
               UNION {SeqToSet(whois_queue[a].waiting_packets) : a \in (DOMAIN whois_queue) \ kept}
        /\ age' = [a \in WhoisAddresses |-> IF a \in kept THEN age[a] + 1 ELSE 0]
        /\ lastWhois' = [op |-> "whois_queue_retry", removed |-> (DOMAIN whois_queue) \ kept]
        /\ UNCHANGED <<nextPacket, notWhois>>

(***************************************************************************)
(* Ingress: Node::handle_incoming_physical_packet for datagrams that are   *)
(* not addressed to this node, network-hypervisor/src/vl1/node.rs          *)
(***************************************************************************)

\* Protocol constants and header sizes
FORWARD_MAX_HOPS == 3
HOPS_MASK == 15
FRAGMENT_HEADER_SIZE == 16
PACKET_HEADER_SIZE == 20

\* Datagram lengths: too short for any header, a fragment header only, a
\* packet header
Lengths == {8, FRAGMENT_HEADER_SIZE, PACKET_HEADER_SIZE}

\* Values of the hops field: none, around the limit, and the greatest
HopsValues == {0, FORWARD_MAX_HOPS - 1, FORWARD_MAX_HOPS, FORWARD_MAX_HOPS + 1, HOPS_MASK}

\* A datagram, by the header fields ingress reads: whether byte 8 is 0xff,
\* the address the dest bytes decode to (None when they decode to none), the
\* fragment indicator and the hops counter
Datagrams ==
    [len : Lengths, byte8_ff : BOOLEAN, dest : {None} \cup {Some(a) : a \in {"S", "A", "C"}},
     fragment : BOOLEAN, hops : HopsValues]

\* FragmentHeader::increment_hops / PacketHeader::increment_hops: the new
\* value of the hops field, which wraps within its bits
increment_hops(h) == (h + 1) % (HOPS_MASK + 1)

\* A hop limit that drops one hop early
HopsExceededEarly(h) == h >= FORWARD_MAX_HOPS

\* fragment_header.increment_hops() > v1::FORWARD_MAX_HOPS
HopsExceeded(h) == h > FORWARD_MAX_HOPS

\* A forward branch that hands the buffer to a peer made up for the address
ForwardToUnknown(dest) == IF peers[dest] # NoPeer THEN peers[dest] ELSE Ident(dest, 1)

\* self.peer(dest) in the forward branch: the peer forward is called on
ForwardTo(dest) == peers[dest]

NoIngress == [valid |-> FALSE]

InitIngress == lastIngress = NoIngress

IdleIngress == InitIngress

\* What handle_incoming_physical_packet does with datagram d:
\* [result, out (the buffer afterwards), to (the peer forward was called on)]
Ingress(d) ==
    LET hopped == [d EXCEPT !.hops = increment_hops(d.hops)]
    IN  IF d.len > 8 /\ d.byte8_ff
          THEN [result |-> "panic", out |-> d, to |-> NoPeer]
        ELSE IF d.len < FRAGMENT_HEADER_SIZE \/ ~d.dest.some
          THEN [result |-> "ignored", out |-> d, to |-> NoPeer]
        ELSE IF d.dest.v = SelfIdentity.address
          THEN [result |-> "local", out |-> d, to |-> NoPeer]
        ELSE IF ~d.fragment /\ d.len < PACKET_HEADER_SIZE
          THEN [result |-> "ignored", out |-> d, to |-> NoPeer]
        ELSE IF HopsExceeded(hopped.hops)
          THEN [result |-> "hops exceeded", out |-> hopped, to |-> NoPeer]
        ELSE IF ForwardTo(d.dest.v) # NoPeer
          THEN [result |-> "forwarded", out |-> hopped, to |-> ForwardTo(d.dest.v)]
        ELSE [result |-> "no peer", out |-> hopped, to |-> NoPeer]

\* pub fn handle_incoming_physical_packet(..), the datagram not being for
\* this node
HandleIncomingPhysicalPacket ==
    \E source_endpoint \in Endpoints, source_local_socket \in LocalSockets, d \in Datagrams :
    /\ Ingress(d).result # "local"
    /\ lastIngress' = [valid |-> TRUE, data |-> d,
                       source_endpoint |-> source_endpoint,
                       source_local_socket |-> source_local_socket,
                       known |-> d.dest.some /\ \E a \in Addresses : a = d.dest.v /\ peers[a] # NoPeer,
                       result |-> Ingress(d).result, out |-> Ingress(d).out, to |-> Ingress(d).to]
    /\ UNCHANGED notIngress

(***************************************************************************)
(* Ingress: Node::handle_incoming_physical_packet for datagrams addressed  *)
(* to this node, network-hypervisor/src/vl1/node.rs                        *)
(***************************************************************************)

\* Packet ids and fragment numbers of the datagrams explored
PacketIds == {1, 2}
TotalFragments == 2
FragmentNos == 0..(TotalFragments - 1)

\* What struct_at::<v1::PacketHeader>(0) and Address::from_bytes(&header.src)
\* find in a buffer: a source address, or None when the buffer is too short
\* for a packet header or the source bytes are no address
Sources == {None, Some("A"), Some("C")}

\* A datagram for this node, by the header fields ingress reads.  Only the
\* first fragment of a packet holds the packet header; a complete packet
\* carries no fragment fields.
LocalDatagrams ==
    [fragment : {TRUE}, packet_id : PacketIds, fragment_no : {0},
     total_fragments : {TotalFragments}, src : Sources]
    \cup
    [fragment : {TRUE}, packet_id : PacketIds, fragment_no : FragmentNos \ {0},
     total_fragments : {TotalFragments}, src : {None}]
    \cup
    [fragment : {FALSE}, packet_id : {1}, fragment_no : {0}, total_fragments : {0}, src : Sources]

\* Path: a reassembler that holds nothing
NoFragments == [packet_id |-> 0, frags |-> <<>>]

\* Path::receive_fragment: the fragments held for the packet id once this one
\* is added; fragments of another packet id are given up
AddFragment(held, packet_id, fragment_no, buf) ==
    MapPut(IF held.packet_id = packet_id THEN held.frags ELSE <<>>, fragment_no, buf)

\* Path::receive_fragment: whether the packet is complete
AllFragments(fs, total_fragments) ==
    total_fragments > 0 /\ \A i \in 0..(total_fragments - 1) : i \in DOMAIN fs

NoLocal == [valid |-> FALSE]

InitLocal ==
    /\ debugAssertions \in BOOLEAN
    /\ reasm = [p \in PathIds |-> NoFragments]
    /\ last_receive = [p \in PathIds |-> 0]
    /\ lastLocal = NoLocal

\* No datagram for this node ever arrives
IdleLocal == InitLocal /\ debugAssertions = FALSE

\* The arguments of peer.receive(.., packet_header, frag0, fragments)
Receive(peer, head, rest) == Some([peer |-> peer, head |-> head, rest |-> rest])

\* handle_incoming_physical_packet, dest == self.identity.address, after
\* canonical_path returned path: what is delivered and which lookup is started
\* [completed, assembled, source, known, receive, whois]
Local(buf, path) ==
    LET d == buf.d
        stored == [id |-> buf.id, src |-> d.src]
        fs == AddFragment(reasm[path], d.packet_id, d.fragment_no, stored)
        completed == d.fragment /\ AllFragments(fs, d.total_fragments)
        head == IF completed THEN fs[0] ELSE stored
        rest == IF completed THEN [i \in 1..(d.total_fragments - 1) |-> fs[i]] ELSE <<>>
        source == IF d.fragment THEN (IF completed THEN head.src ELSE None)
                  ELSE IF debugAssertions THEN d.src ELSE None
        known == source.some /\ peers[source.v] # NoPeer
    IN  [completed |-> completed,
         frags |-> IF d.fragment THEN (IF completed THEN NoFragments
                                       ELSE [packet_id |-> d.packet_id, frags |-> fs])
                   ELSE reasm[path],
         source |-> source,
         receive |-> IF known THEN Receive(peers[source.v], head.id, [i \in DOMAIN rest |-> rest[i].id])
                     ELSE None,
         whois |-> IF source.some /\ ~known /\ ~d.fragment THEN Some(buf.id) ELSE None]

\* pub fn handle_incoming_physical_packet(..), the datagram being for this
\* node.  The ingress thread is thread 1 of the path table.
HandleIncomingLocal ==
    \E ep \in Endpoints, ls \in LocalSockets, d \in LocalDatagrams :
    /\ nextPacket <= MaxDatagrams
    /\ pathsReaders = {}
    /\ LET hit == Get(paths, PathKeyRef(ep, ls))
           buf == [id |-> nextPacket, d |-> d]
           seen == [valid |-> TRUE, data |-> d, buffer |-> nextPacket]
       IN  IF hit = NoPath /\ ifLetKeepsGuard
             THEN \* the write lock is never granted: the call does not return
                  /\ pathsReaders' = {1}
                  /\ lastLocal' = seen @@ [result |-> "blocked", path |-> NoPath,
                                           receive |-> None]
                  /\ UNCHANGED <<paths, nextPath, reasm, last_receive, whoisVars>>
             ELSE LET path == IF hit # NoPath THEN hit ELSE nextPath
                      r == Local(buf, path)
                  IN  /\ paths' = OrInsertWith(paths, PathKeyCopied(ep, ls), nextPath)
                      /\ nextPath' = IF hit # NoPath THEN nextPath ELSE nextPath + 1
                      /\ pathsReaders' = pathsReaders
                      /\ last_receive' = [last_receive EXCEPT ![path] = now]
                      /\ reasm' = [reasm EXCEPT ![path] = r.frags]
                      /\ IF r.whois.some
                           THEN whois(r.source.v, r.whois) /\ nextPacket' = nextPacket + 1
                           ELSE /\ nextPacket' = nextPacket + 1
                                /\ UNCHANGED <<whois_queue, whoisSent, age, released, lastWhois>>
                      /\ lastLocal' = seen @@ [result |-> "returned", path |-> path,
                                               receive |-> r.receive]
    /\ UNCHANGED <<debugAssertions, ifLetKeepsGuard, tpc, targ, tres, spc, dead_paths,
                   need_keepalive, keepalives, sweeps, removedPaths, scanned,
                   fragVars, rootVars, ingressVars, sessionVars, lockVars, tickVars>>

(***************************************************************************)
(* Session identifier: zssp/src/sessionid.rs                               *)
(*                                                                         *)
(* A u64 is the sequence of its eight bytes, least significant first.  The *)
(* bytes it has in memory are that sequence on a little-endian host and    *)
(* its reverse on a big-endian host.  A SessionId is the u64 it wraps.     *)
(***************************************************************************)
SESSION_ID_SIZE_BYTES == 6

Bytes == 0..255

\* The bytes the words handed to the constructors are made of
SampleBytes == {0, 1, 255}

\* Words around MAX - 1, the modulus of random()
EdgeWords ==
    {<<253, 255, 255, 255, 255, 255, 0, 0>>,
     <<254, 255, 255, 255, 255, 255, 0, 0>>,
     <<252, 255, 255, 255, 255, 255, 1, 0>>,
     <<253, 255, 255, 255, 255, 255, 255, 255>>}
Words == [1..8 -> SampleBytes] \cup EdgeWords

Zero64 == [k \in 1..8 |-> 0]

\* pub const MAX: u64 = 0xffffffffffff
MAX == [k \in 1..8 |-> IF k <= SESSION_ID_SIZE_BYTES THEN 255 ELSE 0]

Reverse(v) == [k \in 1..Len(v) |-> v[Len(v) + 1 - k]]

\* u64::to_le, u64::from_le: a byte swap on a big-endian host
to_le(v) == IF bigEndian THEN Reverse(v) ELSE v
from_le(v) == IF bigEndian THEN Reverse(v) ELSE v

\* as_byte_array(&u64), u64::from_ne_bytes: the bytes in memory
as_byte_array(v) == IF bigEndian THEN Reverse(v) ELSE v
from_ne_bytes(b) == IF bigEndian THEN Reverse(b) ELSE b

\* a & b on bytes, bit by bit
RECURSIVE BitAnd(_, _, _)
BitAnd(a, b, bits) ==
    IF bits = 0 THEN 0
    ELSE (IF a % 2 = 1 /\ b % 2 = 1 THEN 1 ELSE 0) + 2 * BitAnd(a \div 2, b \div 2, bits - 1)

\* a & b on u64
And64(v, w) == [k \in 1..8 |-> BitAnd(v[k], w[k], 8)]

\* a <= b on u64: the most significant byte that differs decides
LessEq64(v, w) ==
    \/ v = w
    \/ \E k \in 1..8 : v[k] < w[k] /\ \A j \in (k + 1)..8 : v[j] = w[j]

\* NonZeroU64::new
NonZeroU64(v) == IF v = Zero64 THEN None ELSE Some(v)

\* The outcome of a constructor: a panic, or what it returned
Panicked == [panic |-> TRUE]
Returned(x) == [panic |-> FALSE, ret |-> x]

\* A new() that leaves its argument in host byte order
new_ne(i) ==
    IF ~LessEq64(i, MAX) THEN Panicked
    ELSE IF NonZeroU64(i).some THEN Returned(NonZeroU64(i).v)
    ELSE Panicked

\* A new() without its assertion
new_unchecked(i) ==
    IF NonZeroU64(to_le(i)).some THEN Returned(NonZeroU64(to_le(i)).v)
    ELSE Panicked

\* pub fn new(i: u64) -> SessionId
new(i) ==
    IF ~LessEq64(i, MAX) THEN Panicked
    ELSE IF NonZeroU64(to_le(i)).some THEN Returned(NonZeroU64(to_le(i)).v)
    ELSE Panicked

\* Three bytes as a number and back
Limb(v, k) == v[k] + 256 * v[k + 1] + 65536 * v[k + 2]
LimbBytes(n) == <<n % 256, (n \div 256) % 256, (n \div 65536) % 256>>
LimbSize == 16777216

\* (r % Self::MAX) + 1: with M = MAX = 2^48 - 1, 2^48 = 1 (mod M)
RemMaxPlusOne(r) ==
    LET hi == r[7] + 256 * r[8]
        s0 == Limb(r, 1) + hi
        lo1 == s0 % LimbSize
        mid1 == Limb(r, 4) + (s0 \div LimbSize)
        ge == mid1 >= LimbSize \/ (mid1 = LimbSize - 1 /\ lo1 >= LimbSize - 1)
        lo2 == IF ge THEN (lo1 + 1) % LimbSize ELSE lo1
        mid2 == IF ge THEN mid1 + ((lo1 + 1) \div LimbSize) - LimbSize ELSE mid1
        lo3 == (lo2 + 1) % LimbSize
        mid3 == mid2 + ((lo2 + 1) \div LimbSize)
    IN  LimbBytes(lo3) \o LimbBytes(mid3) \o <<0, 0>>

\* (r % (Self::MAX - 1)) + 1 on the 64 bits of r.  With M = MAX - 1 = 2^48 - 2,
\* 2^48 = 2 (mod M), so r = t (mod M) for t = the low 48 bits + 2 * the high
\* 16 bits; t is below 2 * M, so one subtraction of M at most reduces it.
RemPlusOne(r) ==
    LET hi == r[7] + 256 * r[8]
        s0 == Limb(r, 1) + 2 * hi
        lo1 == s0 % LimbSize
        mid1 == Limb(r, 4) + (s0 \div LimbSize)
        ge == mid1 >= LimbSize \/ (mid1 = LimbSize - 1 /\ lo1 >= LimbSize - 2)
        lo2 == IF ge THEN (lo1 + 2) % LimbSize ELSE lo1
        mid2 == IF ge THEN mid1 + ((lo1 + 2) \div LimbSize) - LimbSize ELSE mid1
        lo3 == (lo2 + 1) % LimbSize
        mid3 == mid2 + ((lo2 + 1) \div LimbSize)
    IN  LimbBytes(lo3) \o LimbBytes(mid3) \o <<0, 0>>

\* pub fn random() -> Self, r what random::xorshift64_random() returned
random(r) ==
    IF NonZeroU64(to_le(RemPlusOne(r))).some
      THEN Returned(NonZeroU64(to_le(RemPlusOne(r))).v)
      ELSE Panicked

\* A new_from_u64_le() that does not mask
new_from_u64_le_unmasked(i) == NonZeroU64(i)

\* pub(crate) fn new_from_u64_le(i: u64) -> Option<SessionId>
new_from_u64_le(i) == NonZeroU64(And64(i, to_le(MAX)))

\* pub(crate) fn new_from_bytes(b: &[u8; Self::SIZE]) -> Option<SessionId>
new_from_bytes(b) ==
    LET tmp == [k \in 1..8 |-> IF k <= SESSION_ID_SIZE_BYTES THEN b[k] ELSE 0]
    IN  new_from_u64_le(from_ne_bytes(tmp))

\* pub(crate) fn as_bytes(&self) -> &[u8; Self::SIZE]
as_bytes(id) == SubSeq(as_byte_array(id), 1, SESSION_ID_SIZE_BYTES)

\* impl From<SessionId> for u64
from(id) == from_le(id)

NoSession == [op |-> "none"]

InitSession ==
    /\ bigEndian \in BOOLEAN
    /\ word \in Words
    /\ sid = NoSession

\* Nobody makes a session identifier
IdleSession == bigEndian = FALSE /\ word = Zero64 /\ sid = NoSession

\* SessionId::new(word)
SessionNew ==
    /\ sid' = [op |-> "new", out |-> new(word)]
    /\ UNCHANGED <<bigEndian, word, fragVars, pathVars, rootVars, whoisVars, ingressVars, localVars, lockVars, tickVars>>

\* SessionId::random(), the generator returning word
SessionRandom ==
    /\ sid' = [op |-> "random", out |-> random(word)]
    /\ UNCHANGED <<bigEndian, word, fragVars, pathVars, rootVars, whoisVars, ingressVars, localVars, lockVars, tickVars>>

\* SessionId::new_from_bytes(the first six bytes of word)
SessionNewFromBytes ==
    /\ sid' = [op |-> "new_from_bytes",
               out |-> Returned(new_from_bytes(SubSeq(word, 1, SESSION_ID_SIZE_BYTES)))]
    /\ UNCHANGED <<bigEndian, word, fragVars, pathVars, rootVars, whoisVars, ingressVars, localVars, lockVars, tickVars>>

\* SessionId::new_from_u64_le(word)
SessionNewFromU64Le ==
    /\ sid' = [op |-> "new_from_u64_le", out |-> Returned(new_from_u64_le(word))]
    /\ UNCHANGED <<bigEndian, word, fragVars, pathVars, rootVars, whoisVars, ingressVars, localVars, lockVars, tickVars>>

(***************************************************************************)
(* Locks: the guards Node's methods take on paths, peers, roots,           *)
(* best_root, whois_queue and intervals, network-hypervisor/src/vl1/       *)
(* node.rs.  A call is the sequence of its lock operations and sends; a    *)
(* thread runs one call at a time and blocks where parking_lot blocks.     *)
(***************************************************************************)
CoreLocks == {"paths", "peers", "roots", "best_root", "whois_queue", "intervals"}

\* Two ingress threads and the background driver
IngressThreads == {"ingress1", "ingress2"}
LockThreads == IngressThreads \cup {"driver"}

\* .read() / .upgradable_read() / .write() or .lock(), the guard's drop,
\* RwLockUpgradableReadGuard::upgrade, and what is sent with no guard involved
Acq(l, m) == [k |-> "acq", lock |-> l, mode |-> m]
Rel(l, m) == [k |-> "rel", lock |-> l, mode |-> m]
Upg(l) == [k |-> "upg", lock |-> l, mode |-> "w"]
Send(what) == [k |-> "send", lock |-> what, mode |-> ""]

\* do_background_tasks: the gates are polled under intervals; is_online() is
\* asked when the root_spam_hello gate fired
PollGatesLocks(spam) ==
    <<Acq("intervals", "w"), Rel("intervals", "w")>>
    \o (IF spam THEN <<Acq("roots", "r"), Rel("roots", "r")>> ELSE <<>>)

\* root_sync: the test and reset of sets_modified
RootSyncFlagLocks == <<Acq("roots", "w"), Rel("roots", "w")>>

\* root_sync, the rebuild under roots.read(): the collision loop probes peers,
\* the second loop takes peers upgradable and upgrades it to insert a new
\* peer; the new roots are stored under roots.write()
RootSyncRebuildLocks(created, swap) ==
    <<Acq("roots", "r"), Acq("peers", "r"), Rel("peers", "r"), Acq("peers", "u")>>
    \o (IF created THEN <<Upg("peers"), Rel("peers", "w")>> ELSE <<Rel("peers", "u")>>)
    \o <<Rel("roots", "r")>>
    \o (IF swap THEN <<Acq("roots", "w"), Rel("roots", "w")>> ELSE <<>>)

\* update_best_root: roots.read() is held over the selection loop and over
\* best_root.write(); it is dropped before roots.write() when the online flag
\* changes, and at the end of the function otherwise
UpdateBestRootLocks(flip) ==
    <<Acq("roots", "r"), Acq("best_root", "w"), Rel("best_root", "w"), Rel("roots", "r")>>
    \o (IF flip THEN <<Acq("roots", "w"), Rel("roots", "w")>> ELSE <<>>)

\* The root HELLO round: copy the roots under roots.read(), then send_hello
\* to each endpoint of each root, two of them here
RootHelloLocks == <<Acq("roots", "r"), Rel("roots", "r"), Send("hello"), Send("hello")>>

\* peer_service: roots.read() and peers.read() over the loop, then
\* peers.write() for each dead peer
PeerServiceLocks(dead) ==
    <<Acq("roots", "r"), Acq("peers", "r"), Rel("peers", "r"), Rel("roots", "r")>>
    \o (IF dead THEN <<Acq("peers", "w"), Rel("peers", "w")>> ELSE <<>>)

\* A path service that sends its keepalives inside the loop over paths.read()
PathServiceSendsUnderRead(dead) ==
    <<Acq("paths", "r"), Send("keepalive"), Rel("paths", "r")>>
    \o (IF dead THEN <<Acq("paths", "w"), Rel("paths", "w")>> ELSE <<>>)

\* path_service: paths.read() over the first loop, paths.write() for each
\* dead path, then wire_send of the keepalives
PathServiceLocks(dead) ==
    <<Acq("paths", "r"), Rel("paths", "r")>>
    \o (IF dead THEN <<Acq("paths", "w"), Rel("paths", "w")>> ELSE <<>>)
    \o <<Send("keepalive")>>

\* send_whois: best_root() reads best_root
SendWhoisLocks == <<Acq("best_root", "r"), Rel("best_root", "r")>>

\* whois_queue_retry: whois_queue.lock() over retain and the loop, then
\* send_whois if anything is left
WhoisQueueRetryLocks(left) ==
    <<Acq("whois_queue", "w"), Rel("whois_queue", "w")>>
    \o (IF left THEN SendWhoisLocks ELSE <<>>)

\* whois: whois_queue.lock() in its own block, then send_whois for a new entry
WhoisLocks(fresh) ==
    <<Acq("whois_queue", "w"), Rel("whois_queue", "w")>>
    \o (IF fresh THEN SendWhoisLocks ELSE <<>>)

\* canonical_path: paths.read() for the probe; on a miss paths.write(), with
\* the read guard dropped before or after it as the build has it
CanonicalPathLocks(hit) ==
    IF hit THEN <<Acq("paths", "r"), Rel("paths", "r")>>
    ELSE IF ifLetKeepsGuard
      THEN <<Acq("paths", "r"), Acq("paths", "w"), Rel("paths", "w"), Rel("paths", "r")>>
    ELSE <<Acq("paths", "r"), Rel("paths", "r"), Acq("paths", "w"), Rel("paths", "w")>>

\* peer(a): peers.read() for the lookup
PeerLocks == <<Acq("peers", "r"), Rel("peers", "r")>>

\* handle_incoming_physical_packet for this node: canonical_path, then the
\* peer lookup of a packet, then whois for an unknown source
IngressLocalLocks(hit, lookup, unknown, fresh) ==
    CanonicalPathLocks(hit)
    \o (IF lookup THEN PeerLocks ELSE <<>>)
    \o (IF lookup /\ unknown THEN WhoisLocks(fresh) ELSE <<>>)

\* handle_incoming_physical_packet for another address: the peer lookup
IngressForwardLocks == PeerLocks

\* remote_update_root_set / add_update_root_set: roots.write()
UpdateRootSetLocks == <<Acq("roots", "w"), Rel("roots", "w")>>

\* The calls of the background driver and those of an ingress thread
DriverCalls ==
    {PollGatesLocks(spam) : spam \in BOOLEAN}
    \cup {RootSyncFlagLocks, RootHelloLocks}
    \cup {RootSyncRebuildLocks(created, swap) : created, swap \in BOOLEAN}
    \cup {UpdateBestRootLocks(flip) : flip \in BOOLEAN}
    \cup {PeerServiceLocks(dead) : dead \in BOOLEAN}
    \cup {PathServiceLocks(dead) : dead \in BOOLEAN}
    \cup {WhoisQueueRetryLocks(left) : left \in BOOLEAN}

IngressCalls ==
    {IngressLocalLocks(hit, lookup, unknown, fresh) : hit, lookup, unknown, fresh \in BOOLEAN}
    \cup {IngressForwardLocks, UpdateRootSetLocks}

CallsOf(t) == IF t \in IngressThreads THEN IngressCalls ELSE DriverCalls

NoCallRunning == [call |-> <<>>, i |-> 1]

\* The operation thread t is at, and none when it runs no call
NextStep(t) ==
    IF lpc[t].i <= Len(lpc[t].call) THEN lpc[t].call[lpc[t].i]
    ELSE [k |-> "none", lock |-> "", mode |-> ""]

\* The modes in which threads other than t hold lock l
OthersHold(t, l) == {g[2] : g \in {x \in UNION {guards[u] : u \in LockThreads \ {t}} : x[1] = l}}
SelfHolds(t, l) == {g[2] : g \in {x \in guards[t] : x[1] = l}}

\* parking_lot: a read guard is granted while no write guard is out, an
\* upgradable one while no write or upgradable guard is out, a write guard
\* while no guard at all is out, the thread's own included
Granted(t, l, m) ==
    IF m = "r" THEN "w" \notin OthersHold(t, l) \cup SelfHolds(t, l)
    ELSE IF m = "u" THEN (OthersHold(t, l) \cup SelfHolds(t, l)) \cap {"w", "u"} = {}
    ELSE OthersHold(t, l) \cup SelfHolds(t, l) = {}

Advance(t) ==
    lpc' = [lpc EXCEPT ![t] = IF lpc[t].i = Len(lpc[t].call) THEN NoCallRunning
                                ELSE [lpc[t] EXCEPT !.i = lpc[t].i + 1]]

InitLocks ==
    /\ lpc = [t \in LockThreads |-> NoCallRunning]
    /\ guards = [t \in LockThreads |-> {}]

\* Nobody calls the node
IdleLocks == InitLocks

notLocks == <<fragVars, pathVars, rootVars, whoisVars, ingressVars, localVars, sessionVars, tickVars>>

\* A thread enters a call
LockBegin ==
    \E t \in LockThreads : \E entered \in CallsOf(t) :
    /\ lpc[t] = NoCallRunning
    /\ lpc' = [lpc EXCEPT ![t] = [call |-> entered, i |-> 1]]
    /\ UNCHANGED <<guards, notLocks>>

\* A guard is requested and granted
LockAcquire ==
    \E t \in LockThreads :
    /\ NextStep(t).k = "acq"
    /\ Granted(t, NextStep(t).lock, NextStep(t).mode)
    /\ guards' = [guards EXCEPT ![t] = guards[t] \cup {<<NextStep(t).lock, NextStep(t).mode>>}]
    /\ Advance(t)
    /\ UNCHANGED notLocks

\* An upgradable guard becomes a write guard once the readers are gone
LockUpgrade ==
    \E t \in LockThreads :
    /\ NextStep(t).k = "upg"
    /\ OthersHold(t, NextStep(t).lock) = {}
    /\ guards' = [guards EXCEPT ![t] = (guards[t] \ {<<NextStep(t).lock, "u">>})
                                     \cup {<<NextStep(t).lock, "w">>}]
    /\ Advance(t)
    /\ UNCHANGED notLocks

\* A guard is dropped
LockRelease ==
    \E t \in LockThreads :
    /\ NextStep(t).k = "rel"
    /\ guards' = [guards EXCEPT ![t] = guards[t] \ {<<NextStep(t).lock, NextStep(t).mode>>}]
    /\ Advance(t)
    /\ UNCHANGED notLocks

\* wire_send of a keepalive, or send_hello to a root
LockSend ==
    \E t \in LockThreads :
    /\ NextStep(t).k = "send"
    /\ Advance(t)
    /\ UNCHANGED <<guards, notLocks>>

(***************************************************************************)
(* Scheduler ticks: Node::do_background_tasks, the gates, the root_sync    *)
(* section and the root HELLO round, network-hypervisor/src/vl1/node.rs    *)
(***************************************************************************)

\* Revisions of the built-in root set an administrator installs: the
\* endpoints of a member change, and a member leaves
DefaultUpdates ==
    {[name |-> "zerotier-default", revision |-> 2,
      members |-> <<Root(Ident("A", 1), Some({"e1", "e2"})), Root(Ident("B", 1), Some({"e1"}))>>],
     [name |-> "zerotier-default", revision |-> 3,
      members |-> <<Root(Ident("A", 1), Some({"e1"}))>>]}

\* if root_spam_hello { root_spam_hello = !self.is_online(); }
Spam(gate, online) == gate /\ ~online

\* The root_hello section: the roots are copied with their endpoints, and
\* send_hello is called once for each endpoint of each root
HelloRound(rootInfo) == [r \in DOMAIN rootInfo |-> [ep \in rootInfo[r] |-> 1]]

NoHello == <<>>

\* Root sync has built nothing
NoSync == [old_root_identities |-> {}, new_roots |-> <<>>, my_root_sets |-> None]

InitTick ==
    /\ helloSent = NoHello
    /\ lastTick = [op |-> "new"]
    /\ rpc = "idle"
    /\ synced = NoSync

\* The scheduler does not run
IdleTick == InitTick

\* pub fn add_update_root_set(&self, rs) -> bool, for a revision of the
\* built-in root set
UpdateDefaultRoots ==
    \E rs \in DefaultUpdates :
    /\ IF AddUpdateReturns(roots.sets, rs)
         THEN roots' = [roots EXCEPT !.sets = MapPut(roots.sets, rs.name, rs),
                                     !.sets_modified = TRUE]
         ELSE roots' = roots
    /\ lastOp' = [op |-> "add_update_root_set", rs |-> rs, ret |-> AddUpdateReturns(roots.sets, rs)]
    /\ events' = <<>>
    /\ UNCHANGED <<now, peers, hello, best_root, lastOnline, wirePending, notRoots>>

\* pub fn do_background_tasks(&self, host_system), on a tick where the gates
\* of peer_service, path_service and whois_queue_retry stay shut: the gates
\* are polled and the spam gate is tested against is_online(), then root sync
\* runs if its gate fired, then the HELLO round if either HELLO gate is up
BackgroundTick ==
    \E root_sync \in BOOLEAN, root_hello \in BOOLEAN, spam_gate \in BOOLEAN :
    LET root_spam_hello == Spam(spam_gate, roots.online)
    IN  /\ IF root_sync
             THEN RootSyncSection
             ELSE /\ lastOp' = [op |-> "tick"]
                  /\ events' = <<>>
                  /\ UNCHANGED <<peers, roots, best_root, lastOnline, wirePending>>
        /\ helloSent' = IF root_hello \/ root_spam_hello THEN HelloRound(roots'.roots) ELSE NoHello
        /\ lastTick' = [op |-> "tick", root_sync |-> root_sync, root_hello |-> root_hello,
                        spam_gate |-> spam_gate, round |-> root_hello \/ root_spam_hello]
        /\ UNCHANGED <<now, hello, rpc, synced, fragVars, pathVars, whoisVars, ingressVars,
                       localVars, sessionVars, lockVars>>

(***************************************************************************)
(* Root sync step by step: the root_sync section of do_background_tasks    *)
(* takes and drops the roots lock four times, and calls that change the    *)
(* root sets can run in between                                            *)
(***************************************************************************)

notSync == <<helloSent, lastTick, fragVars, pathVars, whoisVars, ingressVars, localVars,
             sessionVars, lockVars>>

\* A swap that also marks the sets as processed
SwappedAndCleared(rootInfo, new_roots, my_root_sets) ==
    [rootInfo EXCEPT !.roots = new_roots, !.this_root_sets = my_root_sets,
                     !.sets_modified = FALSE]

\* roots.roots = new_roots; roots.this_root_sets = my_root_sets;
Swapped(rootInfo, new_roots, my_root_sets) ==
    [rootInfo EXCEPT !.roots = new_roots, !.this_root_sets = my_root_sets]

\* Under roots.write(): if roots.sets_modified { roots.sets_modified = false; true } else { false }
SyncTestAndClear ==
    /\ rpc = "idle"
    /\ roots' = [roots EXCEPT !.sets_modified = FALSE]
    /\ rpc' = IF roots.sets_modified THEN "rebuild" ELSE "best"
    /\ events' = <<>>
    /\ lastOp' = [op |-> "root_sync_step", step |-> "test"]
    /\ UNCHANGED <<now, peers, hello, best_root, lastOnline, wirePending, synced, notSync>>

\* Under roots.read(): the collision loop and the loop that builds new_roots
SyncRebuild ==
    /\ rpc = "rebuild"
    /\ \E order \in Orders(DOMAIN roots.sets) :
         LET list == FlattenMembers(roots.sets, order)
             c == CollisionLoop(list, 1, peers, [check |-> <<>>, collisions |-> <<>>, mine |-> None])
             b == BuildLoop(list, 1, SeqToSet(c.collisions),
                            [new_roots |-> <<>>, bad |-> <<>>, peers |-> peers])
         IN  /\ peers' = b.peers
             /\ synced' = [old_root_identities |-> DOMAIN roots.roots,
                           new_roots |-> b.new_roots, my_root_sets |-> c.mine]
             /\ events' = Warnings("collision", c.collisions)
                          \o Warnings("bad identity", [i \in 1..Len(b.bad) |-> b.bad[i].address])
    /\ rpc' = "swap"
    /\ lastOp' = [op |-> "root_sync_step", step |-> "rebuild"]
    /\ UNCHANGED <<now, hello, roots, best_root, lastOnline, wirePending, notSync>>

\* if !old_root_identities.eq(&new_root_identities) { under roots.write(): store }
SyncSwap ==
    /\ rpc = "swap"
    /\ IF RootsChanged(synced.old_root_identities, DOMAIN synced.new_roots)
         THEN /\ roots' = Swapped(roots, synced.new_roots, synced.my_root_sets)
              /\ events' = <<UpdatedRoots(synced.old_root_identities, DOMAIN synced.new_roots)>>
         ELSE /\ roots' = roots
              /\ events' = <<>>
    /\ rpc' = "best"
    /\ lastOp' = [op |-> "root_sync_step", step |-> "swap"]
    /\ UNCHANGED <<now, peers, hello, best_root, lastOnline, wirePending, synced, notSync>>

\* self.update_best_root(host_system, time_ticks)
SyncUpdateBestRoot ==
    /\ rpc = "best"
    /\ \E best \in BestChoices(DOMAIN roots.roots, hello) :
         LET is_online == IsOnline(now, LatestHelloReply(DOMAIN roots.roots, hello), best)
             onlineEvents == OnlineEvents(roots.online, is_online)
         IN  /\ best_root' = best
             /\ roots' = [roots EXCEPT !.online = is_online]
             /\ events' = onlineEvents
             /\ lastOnline' = IF onlineEvents # <<>> THEN Some(onlineEvents[1].online) ELSE lastOnline
    /\ rpc' = "idle"
    /\ lastOp' = [op |-> "root_sync_step", step |-> "best"]
    /\ UNCHANGED <<now, peers, hello, wirePending, synced, notSync>>

(***************************************************************************)
(* Specifications                                                          *)
(***************************************************************************)

\* The reassembler alone
FraggedInit == InitFragged /\ IdlePaths /\ IdleRoots /\ IdleWhois /\ IdleIngress /\ IdleLocal /\ IdleSession /\ IdleLocks /\ IdleTick
FraggedNext == Assemble
SpecFragged == FraggedInit /\ [][FraggedNext]_vars

\* The path table under concurrent ingress threads and the path-service sweep
PathsInit == InitPaths /\ IdleFragged /\ IdleRoots /\ IdleWhois /\ IdleIngress /\ IdleLocal /\ IdleSession /\ IdleLocks /\ IdleTick
PathsNext ==
    \/ CanonicalPathHit
    \/ CanonicalPathMiss
    \/ CanonicalPathInsert
    \/ CanonicalPathReturn
    \/ PathServiceScan
    \/ PathServiceRemove
    \/ PathServiceKeepalive
SpecPaths == PathsInit /\ [][PathsNext]_vars

\* The root manager: administrators and remote nodes present root sets, peers
\* reply to HELLOs and the scheduler runs root sync
RootsInit == InitRoots /\ IdleFragged /\ IdlePaths /\ IdleWhois /\ IdleIngress /\ IdleLocal /\ IdleSession /\ IdleLocks /\ IdleTick
RootsNext ==
    \/ AddUpdateRootSet
    \/ RemoteUpdateRootSet
    \/ RootSync
    \/ HelloReply
SpecRoots == RootsInit /\ [][RootsNext]_vars

\* The peer table: an administrator changes the root sets while the scheduler
\* runs root sync and peer service
PeersInit == InitRoots /\ IdleFragged /\ IdlePaths /\ IdleWhois /\ IdleIngress /\ IdleLocal /\ IdleSession /\ IdleLocks /\ IdleTick
PeersNext ==
    \/ AddUpdateRootSet
    \/ RootSync
    \/ PeerService
SpecPeers == PeersInit /\ [][PeersNext]_vars

\* Going online and offline: a node on the default roots, whose roots reply to
\* HELLOs while the clock advances and the scheduler runs root sync
OnlineInit == InitRoots /\ IdleFragged /\ IdlePaths /\ IdleWhois /\ IdleIngress /\ IdleLocal /\ IdleSession /\ IdleLocks /\ IdleTick
OnlineNext ==
    \/ InitDefaultRoots
    \/ RootSync
    \/ HelloReply
    \/ AdvanceClock
SpecOnline == OnlineInit /\ [][OnlineNext]_vars

\* The WHOIS queue: lookups are started and never answered, while the
\* scheduler runs the retry sweep
WhoisInit == InitWhois /\ IdleFragged /\ IdlePaths /\ IdleRoots /\ IdleIngress /\ IdleLocal /\ IdleSession /\ IdleLocks /\ IdleTick
WhoisNext ==
    \/ Whois
    \/ WhoisQueueRetry
SpecWhois == WhoisInit /\ [][WhoisNext]_vars

\* Forwarding: datagrams for other nodes arrive at a node on the default
\* roots, before and after root sync has made the roots known peers
ForwardInit == InitIngress /\ InitRoots /\ IdleFragged /\ IdlePaths /\ IdleWhois /\ IdleLocal /\ IdleSession /\ IdleLocks /\ IdleTick
ForwardNext ==
    \/ InitDefaultRoots
    \/ RootSync
    \/ HandleIncomingPhysicalPacket
SpecForward == ForwardInit /\ [][ForwardNext]_vars

\* Delivery: datagrams for this node arrive on one thread at a node on the
\* default roots, before and after root sync has made the roots known peers
LocalInit == InitLocal /\ InitPaths /\ InitRoots /\ InitWhois /\ IdleFragged /\ IdleIngress /\ IdleSession /\ IdleLocks /\ IdleTick
LocalNext ==
    \/ InitDefaultRoots
    \/ RootSync
    \/ HandleIncomingLocal
SpecLocal == LocalInit /\ [][LocalNext]_vars

\* Session identifiers: each constructor applied to a word, on either kind of host
SessionInit ==
    InitSession /\ IdleFragged /\ IdlePaths /\ IdleRoots /\ IdleWhois /\ IdleIngress /\ IdleLocal /\ IdleLocks /\ IdleTick
SessionNext ==
    \/ SessionNew
    \/ SessionRandom
    \/ SessionNewFromBytes
    \/ SessionNewFromU64Le
SpecSession == SessionInit /\ [][SessionNext]_vars

\* Locks: two ingress threads and the background driver run calls of the node
\* side by side, in a build of either kind
LocksInit ==
    InitLocks /\ InitPaths /\ IdleFragged /\ IdleRoots /\ IdleWhois /\ IdleIngress /\ IdleLocal /\ IdleSession /\ IdleTick
LocksNext ==
    \/ LockBegin
    \/ LockAcquire
    \/ LockUpgrade
    \/ LockRelease
    \/ LockSend
SpecLocks == LocksInit /\ [][LocksNext]_vars

\* Root sync against its callers: an administrator installs revisions of the
\* default roots and roots reply to HELLOs at any point of a root sync
SyncInit ==
    InitTick /\ InitRoots /\ IdleFragged /\ IdlePaths /\ IdleWhois /\ IdleIngress /\ IdleLocal /\ IdleSession /\ IdleLocks
SyncNext ==
    \/ InitDefaultRoots
    \/ UpdateDefaultRoots
    \/ HelloReply
    \/ SyncTestAndClear
    \/ SyncRebuild
    \/ SyncSwap
    \/ SyncUpdateBestRoot
SpecSync == SyncInit /\ [][SyncNext]_vars

\* The sweep against ingress: two datagrams for this node arrive on one thread
\* while the scheduler runs the path-service sweep.  The node has handled
\* datagrams before, whose paths are gone and which left nothing in the queue.
SweepInit ==
    /\ InitLocal /\ InitPaths /\ InitRoots
    /\ whois_queue = <<>> /\ whoisSent = {} /\ age = [a \in WhoisAddresses |-> 0]
    /\ released = {} /\ lastWhois = [op |-> "new"]
    /\ nextPacket = MaxDatagrams - 1
    /\ IdleFragged /\ IdleIngress /\ IdleSession /\ IdleLocks /\ IdleTick
SweepNext ==
    \/ HandleIncomingLocal
    \/ PathServiceScan
    \/ PathServiceRemove
    \/ PathServiceKeepalive
SpecSweep == SweepInit /\ [][SweepNext]_vars

\* Ticks: a node on the default roots whose administrator installs new
\* revisions of them, while the roots reply to HELLOs and the scheduler ticks
TickInit ==
    InitTick /\ InitRoots /\ IdleFragged /\ IdlePaths /\ IdleWhois /\ IdleIngress /\ IdleLocal /\ IdleSession /\ IdleLocks
TickNext ==
    \/ InitDefaultRoots
    \/ UpdateDefaultRoots
    \/ BackgroundTick
    \/ HelloReply
SpecTick == TickInit /\ [][TickNext]_vars

(***************************************************************************)
(* Properties of the path table                                            *)
(***************************************************************************)

\* C1 - Path canonicalization: the paths table never holds more than one path
\* object for a pair (endpoint, local_socket), and any two canonical_path calls
\* for the same pair, from whatever threads, returned the same path object
\* unless the path-service sweep removed one of the two objects in between.
C1_PathCanonical ==
    /\ \A e1 \in paths, e2 \in paths : PathKeyEq(e1.key, e2.key) => e1 = e2
    /\ \A t1 \in Threads, t2 \in Threads :
          (/\ tpc[t1] = "done" /\ tpc[t2] = "done"
           /\ targ[t1] = targ[t2]
           /\ tres[t1] \notin removedPaths /\ tres[t2] \notin removedPaths)
          => tres[t1] = tres[t2]

\* Two threads hold the same path object for the same pair, and that object
\* was created after the sweep had removed an earlier one.
C1_Witness ==
    \E t1 \in Threads, t2 \in Threads :
        /\ t1 # t2
        /\ tpc[t1] = "done" /\ tpc[t2] = "done"
        /\ targ[t1] = targ[t2]
        /\ tres[t1] = tres[t2]
        /\ tres[t1] # NoPath
        /\ tres[t1] \notin removedPaths
        /\ removedPaths # {}

(***************************************************************************)
(* Properties of the reassembler                                           *)
(***************************************************************************)

\* The fragment a run of calls supplied as fragment_no i
GivenAs(r, i) == (CHOOSE k \in 1..Len(r) : r[k].fragment_no = i)

\* C2 - Reassembler completeness: when, starting from a reassembler that holds
\* nothing, the N fragments of one message (same counter, fragment_count = N,
\* each fragment_no once, any order) are passed to assemble, no call before the
\* N-th returns anything and the N-th returns an Assembled of exactly N
\* elements whose element i is the fragment that was given as fragment_no i.
C2_ReassemblerCompleteness ==
    (run # <<>> /\ run[1].valid) =>
        LET N == run[1].fragment_count
            n == Len(run)
        IN  /\ run[1].haveBefore = {}
            /\ n <= N
            /\ \A k \in 1..n : k < N => ~run[k].ret.some
            /\ n = N =>
                  /\ run[N].ret.some
                  /\ run[N].ret.len = N
                  /\ DOMAIN AsRef(run[N].ret) = 0..(N - 1)
                  /\ \A i \in 0..(N - 1) :
                        AsRef(run[N].ret)[i] = run[GivenAs(run, i)].fragment

\* A message of MAX_FRAGMENTS fragments, delivered highest fragment_no first,
\* has just been completed.
C2_Witness ==
    /\ Len(run) = MAX_FRAGMENTS
    /\ run[1].valid
    /\ run[1].fragment_no = MAX_FRAGMENTS - 1
    /\ run[1].counter # run[1].counterBefore
    /\ run[MAX_FRAGMENTS].ret.some

\* C3 as stated - every call whose counter differs from the current counter
\* replaces the counter, drops everything held and leaves exactly the fragment
\* of this call held.
C3_AnyCallResets ==
    (lastCall.valid /\ lastCall.counter # lastCall.counterBefore) =>
        /\ counter = lastCall.counter
        /\ Held(have, frags) = {lastCall.fragment}
        /\ needsDrop => \A id \in lastCall.heldBefore : dropCount[id] >= 1

\* C3 amended - every ACCEPTED call (fragment_no < fragment_count <=
\* MAX_FRAGMENTS) whose counter differs from the current counter replaces the
\* counter and drops every fragment held before (one drop each when the
\* fragment type needs dropping); afterwards the reassembler holds only the
\* fragment of this call, or nothing when fragment_count = 1, in which case the
\* call returned that fragment alone as an Assembled of length 1.
C3_AcceptedCallResets ==
    (/\ lastCall.valid
     /\ lastCall.counter # lastCall.counterBefore
     /\ Accepted(lastCall.fragment_no, lastCall.fragment_count)) =>
        /\ counter = lastCall.counter
        /\ lastCall.heldBefore \cap Held(have, frags) = {}
        /\ needsDrop => \A id \in lastCall.heldBefore : dropCount[id] = 1
        /\ IF lastCall.fragment_count = 1
             THEN /\ have = {}
                  /\ lastCall.ret.some
                  /\ AsRef(lastCall.ret) = [i \in {0} |-> lastCall.fragment]
             ELSE /\ have = {lastCall.fragment_no}
                  /\ Held(have, frags) = {lastCall.fragment}
                  /\ ~lastCall.ret.some

\* A call with a new counter has just discarded two fragments of an unfinished
\* message of a type that needs dropping.
C3_Witness ==
    /\ lastCall.valid
    /\ lastCall.counter # lastCall.counterBefore
    /\ Accepted(lastCall.fragment_no, lastCall.fragment_count)
    /\ Cardinality(lastCall.heldBefore) = 2
    /\ needsDrop
    /\ have = {lastCall.fragment_no}

(***************************************************************************)
(* Root manager properties                                                 *)
(***************************************************************************)

\* Address a is listed in two trusted root sets with different identities
Collides(a) ==
    \E n1, n2 \in DOMAIN roots.sets : n1 # n2 /\
      \E i \in 1..Len(roots.sets[n1].members), j \in 1..Len(roots.sets[n2].members) :
        /\ roots.sets[n1].members[i].identity.address = a
        /\ roots.sets[n2].members[j].identity.address = a
        /\ roots.sets[n1].members[i].identity # roots.sets[n2].members[j].identity

WarningFor(a) == \E k \in 1..Len(events) : events[k].type = "SecurityWarning" /\ events[k].address = a

\* C4: collision exclusion.  After the root sync that rebuilds the roots, an
\* address listed in two trusted root sets with different identities is the
\* address of no peer in roots and not of best_root, and a SecurityWarning
\* naming it has been emitted.
C4_CollisionExclusion ==
    (lastOp.op = "root_sync" /\ lastOp.rebuilt) =>
        \A a \in Addresses : Collides(a) =>
            /\ \A r \in DOMAIN roots.roots : r.address # a
            /\ best_root.some => best_root.v.address # a
            /\ WarningFor(a)

\* C5: no new roots from the wire.  A remote_update_root_set call changes the
\* node's state only when a set of that name existed, the sender was a member
\* of it and the update was newer; otherwise sets and sets_modified stay as
\* they were, and the number of root sets never grows.
C5_NoNewRootsFromWire ==
    [][lastOp'.op = "remote_update_root_set" =>
         LET ok == lastOp'.existed /\ lastOp'.member /\ lastOp'.newer
         IN  /\ (roots' # roots \/ peers' # peers \/ best_root' # best_root \/ hello' # hello) => ok
             /\ ~ok => (roots'.sets = roots.sets /\ roots'.sets_modified = roots.sets_modified)
             /\ Cardinality(DOMAIN roots'.sets) <= Cardinality(DOMAIN roots.sets)]_vars

\* A wire update from a member has just replaced the set named x by its
\* second revision
C5_Witness ==
    /\ lastOp.op = "remote_update_root_set"
    /\ lastOp.existed /\ lastOp.member /\ lastOp.newer
    /\ "x" \in DOMAIN roots.sets
    /\ roots.sets["x"].revision = 2
    /\ roots.sets_modified

\* The Online events among the events of one tick
RECURSIVE OnlineEmitted(_)
OnlineEmitted(evs) ==
    IF evs = <<>> THEN <<>>
    ELSE (IF Head(evs).type = "Online" THEN <<Head(evs)>> ELSE <<>>) \o OnlineEmitted(Tail(evs))

\* C6: Online events.  A tick emits Online(b) exactly when it changes the
\* online flag to b, once; a tick that leaves the flag alone emits none; two
\* consecutive Online events never carry the same boolean.
C6_OnlineEvents ==
    [][/\ roots'.online # roots.online => OnlineEmitted(events') = <<Online(roots'.online)>>
       /\ roots'.online = roots.online => OnlineEmitted(events') = <<>>
       /\ \A k \in 1..Len(events') :
             events'[k].type = "Online" => lastOnline # Some(events'[k].online)]_vars

\* A node that was online has just gone offline and said so
C6_Witness ==
    /\ lastOp.op = "root_sync"
    /\ events = <<Online(FALSE)>>
    /\ ~roots.online
    /\ lastOnline = Some(FALSE)

\* C7 as stated: after a tick the node is online iff some root replied to a
\* HELLO at most two hello intervals ago.
C7_OnlineInclusive ==
    lastOp.op = "root_sync" =>
        (roots.online <=> \E r \in DOMAIN roots.roots : now - hello[r] <= 2 * ROOT_HELLO_INTERVAL)

\* C7 amended: after a tick the node is online iff some root has replied to a
\* HELLO (at a time above 0) less than two hello intervals ago.
C7_OnlineStrict ==
    lastOp.op = "root_sync" =>
        (roots.online <=> \E r \in DOMAIN roots.roots :
                              hello[r] > 0 /\ now - hello[r] < 2 * ROOT_HELLO_INTERVAL)

\* After a tick, the freshest reply of a root is exactly two intervals old
\* and the node is offline
C7_Witness ==
    /\ lastOp.op = "root_sync"
    /\ DOMAIN roots.roots # {}
    /\ \E r \in DOMAIN roots.roots : now - hello[r] = 2 * ROOT_HELLO_INTERVAL
    /\ \A r \in DOMAIN roots.roots : now - hello[r] >= 2 * ROOT_HELLO_INTERVAL
    /\ ~roots.online

\* This node's own identity is a member of a trusted root set
SelfIsMember ==
    \E n \in DOMAIN roots.sets : \E i \in 1..Len(roots.sets[n].members) :
        roots.sets[n].members[i].identity = SelfIdentity

\* C8: own-root membership.  After a root sync, this_root_sets is Some iff
\* this node's identity is a member of at least one trusted root set.
C8_OwnRootMembership ==
    lastOp.op = "root_sync" => (roots.this_root_sets.some <=> SelfIsMember)

(***************************************************************************)
(* Properties of the WHOIS queue and of forwarding                         *)
(***************************************************************************)

\* C9: hop limit.  A legacy datagram, fragment or complete packet, for
\* another address with a known peer has its hops counter incremented in
\* place; it is dropped without a forward call when the counter was
\* FORWARD_MAX_HOPS before, and forwarded when it was FORWARD_MAX_HOPS - 1.
C9_HopLimit ==
    (/\ lastIngress.valid
     /\ ~(lastIngress.data.len > 8 /\ lastIngress.data.byte8_ff)
     /\ lastIngress.data.len >= (IF lastIngress.data.fragment THEN FRAGMENT_HEADER_SIZE
                                 ELSE PACKET_HEADER_SIZE)
     /\ lastIngress.known
     /\ lastIngress.data.dest.v # SelfIdentity.address) =>
        /\ lastIngress.data.hops = FORWARD_MAX_HOPS =>
              /\ lastIngress.result # "forwarded"
              /\ lastIngress.to = NoPeer
              /\ lastIngress.out.hops = FORWARD_MAX_HOPS + 1
        /\ lastIngress.data.hops = FORWARD_MAX_HOPS - 1 =>
              /\ lastIngress.result = "forwarded"
              /\ lastIngress.to.address = lastIngress.data.dest.v
              /\ lastIngress.out = [lastIngress.data EXCEPT !.hops = FORWARD_MAX_HOPS]

\* A complete packet one hop below the limit has just been forwarded to the
\* peer of its destination
C9_Witness ==
    /\ lastIngress.valid
    /\ lastIngress.known
    /\ ~lastIngress.data.fragment
    /\ lastIngress.data.hops = FORWARD_MAX_HOPS - 1
    /\ lastIngress.result = "forwarded"

\* C10: WHOIS retry bound.  Every retry sweep increments the retry_count of
\* each entry it keeps and puts the entry's address in the batched WHOIS; an
\* entry is removed, its waiting packets with it, by sweep number
\* WHOIS_RETRY_COUNT_MAX + 1 after its creation and by none before;
\* retry_count never exceeds WHOIS_RETRY_COUNT_MAX + 1.
C10_WhoisRetryBound ==
    [][/\ lastWhois'.op = "whois_queue_retry" =>
            \A a \in DOMAIN whois_queue :
               IF a \in DOMAIN whois_queue'
                 THEN /\ whois_queue'[a].retry_count = whois_queue[a].retry_count + 1
                      /\ a \in whoisSent'
                      /\ age[a] < WHOIS_RETRY_COUNT_MAX
                 ELSE /\ age[a] = WHOIS_RETRY_COUNT_MAX
                      /\ SeqToSet(whois_queue[a].waiting_packets) \subseteq released'
       /\ \A a \in DOMAIN whois_queue' :
             whois_queue'[a].retry_count <= WHOIS_RETRY_COUNT_MAX + 1]_vars

\* A sweep has just removed an entry and dropped a packet that waited in it
C10_Witness ==
    /\ lastWhois.op = "whois_queue_retry"
    /\ lastWhois.removed # {}
    /\ released # {}
    /\ whois_queue = <<>>

(***************************************************************************)
(* Properties of ingress                                                   *)
(***************************************************************************)

\* C11: ingress is infallible.  handle_incoming_physical_packet returns
\* normally for every datagram, those too short to parse and those with 0xff
\* at byte 8 included; it never aborts.
C11_IngressInfallible ==
    lastIngress.valid => lastIngress.result # "panic"

\* The step is a call of handle_incoming_physical_packet, for this node, that
\* returned
LocalCall == lastLocal' # lastLocal /\ lastLocal'.result = "returned"

\* The fragment of the call completes the packet held on its path
Completes ==
    /\ lastLocal'.data.fragment
    /\ \A i \in FragmentNos \ {lastLocal'.data.fragment_no} :
          /\ reasm[lastLocal'.path].packet_id = lastLocal'.data.packet_id
          /\ i \in DOMAIN reasm[lastLocal'.path].frags

\* The first fragment of the packet the call completes
FirstFragment ==
    IF lastLocal'.data.fragment_no = 0
      THEN [id |-> lastLocal'.buffer, src |-> lastLocal'.data.src]
      ELSE reasm[lastLocal'.path].frags[0]

\* C12: fragmented packet.  When a fragment for this node completes
\* reassembly on its path, the source address is read from the first
\* fragment's packet header; with a peer for it the first fragment and the
\* trailing fragments are delivered to that peer, with none a WHOIS entry for
\* the source is enqueued that carries the assembled packet.
C12_FragmentedDelivery ==
    [][(LocalCall /\ Completes /\ FirstFragment.src.some) =>
          IF peers[FirstFragment.src.v] # NoPeer
            THEN lastLocal'.receive =
                   Receive(peers[FirstFragment.src.v], FirstFragment.id,
                           [i \in 1..(TotalFragments - 1) |->
                               IF i = lastLocal'.data.fragment_no THEN lastLocal'.buffer
                               ELSE reasm[lastLocal'.path].frags[i].id])
            ELSE /\ FirstFragment.src.v \in DOMAIN whois_queue'
                 /\ FirstFragment.id \in
                        SeqToSet(whois_queue'[FirstFragment.src.v].waiting_packets)]_vars

\* C13: complete packet to self.  A non-fragment datagram for this node is
\* delivered to the peer of its source address when the peer table has one;
\* otherwise whois(source) is called with the buffer as the waiting packet and
\* nothing is delivered.
C13_CompletePacketDelivery ==
    [][(LocalCall /\ ~lastLocal'.data.fragment /\ lastLocal'.data.src.some) =>
          IF peers[lastLocal'.data.src.v] # NoPeer
            THEN lastLocal'.receive = Receive(peers[lastLocal'.data.src.v], lastLocal'.buffer, <<>>)
            ELSE /\ lastLocal'.receive = None
                 /\ lastLocal'.data.src.v \in DOMAIN whois_queue'
                 /\ lastLocal'.buffer \in
                        SeqToSet(whois_queue'[lastLocal'.data.src.v].waiting_packets)]_vars

(***************************************************************************)
(* Further properties of the root manager and of the peer table            *)
(***************************************************************************)

\* C14: add_update_root_set(rs).  With a set of that name that rs should
\* replace, the set is replaced and sets_modified becomes true; with no set
\* of that name rs is inserted and sets_modified becomes true; otherwise
\* nothing changes.  It returns true exactly when sets changed.
C14_AddUpdateRootSet ==
    [][lastOp'.op = "add_update_root_set" =>
         LET rs == lastOp'.rs
             exists == rs.name \in DOMAIN roots.sets
             newer == exists /\ rs.revision > roots.sets[rs.name].revision
         IN  /\ IF ~exists \/ newer
                  THEN /\ DOMAIN roots'.sets = DOMAIN roots.sets \cup {rs.name}
                       /\ roots'.sets[rs.name] = rs
                       /\ \A n \in DOMAIN roots.sets \ {rs.name} : roots'.sets[n] = roots.sets[n]
                       /\ roots'.sets_modified
                  ELSE roots' = roots
             /\ lastOp'.ret <=> roots'.sets # roots.sets
             /\ roots'.roots = roots.roots /\ roots'.online = roots.online
             /\ roots'.this_root_sets = roots.this_root_sets]_vars

\* A call has just been refused: the set of that name is at least as new
C14_Witness ==
    /\ lastOp.op = "add_update_root_set"
    /\ ~lastOp.ret
    /\ lastOp.rs.name \in DOMAIN roots.sets
    /\ roots.sets[lastOp.rs.name].revision > lastOp.rs.revision
    /\ roots.sets[lastOp.rs.name].members # lastOp.rs.members

\* The UpdatedRoots events among the events of one tick
UpdatedRootsEmitted(evs) == {k \in 1..Len(evs) : evs[k].type = "UpdatedRoots"}

\* C15 as stated: the root sync that follows a replacement by
\* remote_update_root_set emits an UpdatedRoots event.
C15_RotationAlwaysAnnounced ==
    [][(lastOp'.op = "root_sync" /\ wirePending) =>
          UpdatedRootsEmitted(events') # {}]_vars

\* C15 amended: the root sync that follows a replacement by
\* remote_update_root_set rebuilds the roots from the sets; when the
\* identities of the rebuilt roots differ from those of the current roots
\* it swaps the rebuilt roots in, each of them a member with endpoints of a
\* trusted set, and emits one UpdatedRoots(old, new); when they do not
\* differ it leaves roots alone and emits no UpdatedRoots.
C15_RotationAnnouncedOnChange ==
    [][(lastOp'.op = "root_sync" /\ wirePending) =>
          /\ lastOp'.rebuilt /\ ~roots'.sets_modified
          /\ IF DOMAIN roots'.roots # DOMAIN roots.roots
               THEN /\ \E k \in 1..Len(events') :
                         /\ UpdatedRootsEmitted(events') = {k}
                         /\ events'[k] = UpdatedRoots(DOMAIN roots.roots, DOMAIN roots'.roots)
                    /\ \A r \in DOMAIN roots'.roots :
                         \E n \in DOMAIN roots.sets : \E i \in 1..Len(roots.sets[n].members) :
                            /\ roots.sets[n].members[i].identity.address = r.address
                            /\ roots.sets[n].members[i].endpoints = Some(roots'.roots[r])
               ELSE /\ UpdatedRootsEmitted(events') = {}
                    /\ roots'.roots = roots.roots]_vars

\* A root sync has just replaced the roots of a set's first revision by
\* those of the second revision that came over the wire
C15_Witness ==
    /\ lastOp.op = "root_sync"
    /\ lastOp.rotated
    /\ \E k \in 1..Len(events) :
          /\ events[k].type = "UpdatedRoots"
          /\ events[k].old # {}
          /\ events[k].new = DOMAIN roots.roots
    /\ \E n \in DOMAIN roots.sets : roots.sets[n].revision = 2

\* C16: a peer-service sweep removes exactly the addresses whose peer's
\* service() returned false and whose peer is not a key of roots.roots; the
\* peers that are roots all stay, whatever service() returned.
C16_RootsPinned ==
    [][lastOp'.op = "peer_service" =>
          /\ \A a \in Addresses :
                IF /\ peers[a] # NoPeer
                   /\ a \notin lastOp'.alive
                   /\ peers[a] \notin DOMAIN roots.roots
                  THEN peers'[a] = NoPeer
                  ELSE peers'[a] = peers[a]
          /\ \A r \in DOMAIN roots.roots : peers'[r.address] = r]_vars

\* A sweep has just removed a peer that is no longer a root and has kept a
\* root whose service() returned false as well
C16_Witness ==
    /\ lastOp.op = "peer_service"
    /\ \E r \in DOMAIN roots.roots : r.address \notin lastOp.alive /\ peers[r.address] = r
    /\ \E a \in lastOp.dead_peers : peers[a] = NoPeer

\* C17: the peer stored under an address has an identity of that address
\* (the table is a map, so an address has at most one peer); a root sync
\* leaves every existing entry as it is, and an entry it adds is the peer
\* of a root set member, stored under that member's address.
C17_PeerTable ==
    /\ [](\A a \in Addresses : peers[a] # NoPeer => peers[a].address = a)
    /\ [][lastOp'.op = "root_sync" =>
            \A a \in Addresses :
               IF peers[a] # NoPeer
                 THEN peers'[a] = peers[a]
                 ELSE peers'[a] # NoPeer =>
                        \E n \in DOMAIN roots.sets : \E i \in 1..Len(roots.sets[n].members) :
                           /\ roots.sets[n].members[i].identity = peers'[a]
                           /\ peers'[a].address = a]_vars

\* A root sync has just found the peer of one root in the table and has
\* added the peer of another
C17_Witness ==
    /\ lastOp.op = "root_sync"
    /\ lastOp.created # {}
    /\ \A a \in lastOp.created : peers[a] \in DOMAIN roots.roots
    /\ \E r \in DOMAIN roots.roots : r.address \notin lastOp.created /\ peers[r.address] = r

(***************************************************************************)
(* Properties of the session identifier                                    *)
(***************************************************************************)

\* x is in [1, MAX]: not zero, and nothing in the two high bytes
InRange(x) == x # Zero64 /\ x[7] = 0 /\ x[8] = 0

\* C18 - round trip: for x in [1, MAX], new(x) returns an identifier s with
\* new_from_bytes(s.as_bytes()) = Some(s) and u64::from(s) = x.
C18_RoundTrip ==
    (sid.op = "new" /\ InRange(word)) =>
        /\ ~sid.out.panic
        /\ new_from_bytes(as_bytes(sid.out.ret)) = Some(sid.out.ret)
        /\ from(sid.out.ret) = word

\* new() has made an identifier of several different bytes on a big-endian host
C18_Witness ==
    /\ sid.op = "new"
    /\ bigEndian
    /\ word = <<1, 0, 255, 1, 0, 255, 0, 0>>
    /\ ~sid.out.panic

\* C19 - new(i) panics if i is zero or greater than MAX, and returns an
\* identifier for every other i.
C19_NewRejects ==
    sid.op = "new" =>
        (sid.out.panic <=> (word = Zero64 \/ word[7] # 0 \/ word[8] # 0))

\* new() has panicked on MAX + 1
C19_Witness ==
    /\ sid.op = "new"
    /\ word = <<0, 0, 0, 0, 0, 0, 1, 0>>
    /\ sid.out.panic

\* The identifier the latest constructor returned, if it returned one
Constructed ==
    IF sid.op = "none" \/ sid.out.panic THEN None
    ELSE IF sid.op \in {"new", "random"} THEN Some(sid.out.ret)
    ELSE sid.out.ret

\* C20 - byte [4] of as_bytes() of every constructed identifier is 0xff.
C20_ByteFourIsFF ==
    Constructed.some => as_bytes(Constructed.v)[5] = 255

\* C21 - range: the value of every identifier that new, random,
\* new_from_bytes or new_from_u64_le produced is in [1, MAX], and
\* new_from_bytes returns None exactly for six zero bytes.
C21_SessionIdRange ==
    /\ Constructed.some => InRange(from(Constructed.v))
    /\ sid.op = "new_from_bytes" =>
          (sid.out.ret = None <=> \A k \in 1..SESSION_ID_SIZE_BYTES : word[k] = 0)

\* new_from_u64_le has made an identifier of a word with bits above the 48th,
\* on a big-endian host
C21_Witness ==
    /\ sid.op = "new_from_u64_le"
    /\ bigEndian
    /\ word = <<255, 1, 0, 0, 0, 0, 1, 255>>
    /\ sid.out.ret.some

\* x - 1 on a nonzero u64
Pred64(x) ==
    LET k == CHOOSE j \in 1..8 : x[j] # 0 /\ \A i \in 1..(j - 1) : x[i] = 0
    IN  [i \in 1..8 |-> IF i < k THEN 255 ELSE IF i = k THEN x[i] - 1 ELSE x[i]]

\* C22 as stated: the value random() returns is in [1, MAX], and every value
\* of [1, MAX], MAX included, is returned for some word of the generator.
C22_RandomWholeRange ==
    /\ sid.op = "random" => (~sid.out.panic /\ InRange(from(sid.out.ret)))
    /\ InRange(word) => \E r \in {Pred64(word)} \cup Words : random(r) = new(word)

\* C22 amended: the value random() returns is in [1, MAX - 1]; every value v
\* of [1, MAX - 1] is returned, for one when the generator returns v - 1; MAX
\* is not returned.
C22_RandomBelowMax ==
    /\ sid.op = "random" =>
          (~sid.out.panic /\ InRange(from(sid.out.ret)) /\ from(sid.out.ret) # MAX)
    /\ (InRange(word) /\ word # MAX) => random(Pred64(word)) = new(word)

\* random() has returned MAX - 1, the greatest value it returns
C22_Witness ==
    /\ sid.op = "random"
    /\ ~sid.out.panic
    /\ from(sid.out.ret) = <<254, 255, 255, 255, 255, 255, 0, 0>>

(***************************************************************************)
(* Further properties of the reassembler                                   *)
(***************************************************************************)

\* The fragments the Assembled of a call owns
Given(ret) == IF ret.some THEN {AsRef(ret)[i] : i \in DOMAIN AsRef(ret)} ELSE {}

\* C23 - memory discipline, for a fragment type that needs dropping: of the
\* fragments held before an accepted call and the fragment the call carries,
\* each is afterwards in exactly one of three places: held (its slot's bit is
\* set in have), owned by the Assembled the call returned, or dropped by the
\* call; and no fragment is dropped twice.
C23_MemoryDiscipline ==
    [][(/\ nextFrag' # nextFrag
        /\ needsDrop
        /\ Accepted(lastCall'.fragment_no, lastCall'.fragment_count)) =>
          LET before == Held(have, frags) \cup {lastCall'.fragment}
              kept == Held(have', frags')
              given == Given(lastCall'.ret)
              dropped == {id \in FragIds : dropCount'[id] # dropCount[id]}
          IN  /\ before = kept \cup given \cup dropped
              /\ kept \cap given = {}
              /\ kept \cap dropped = {}
              /\ given \cap dropped = {}
              /\ \A id \in FragIds : dropCount'[id] <= 1]_vars

\* C24 - one message in flight: have only has bits of slots, so at most
\* MAX_FRAGMENTS fragments are held; and what is held after a call is the
\* call's fragment, supplied with what is now the counter, and, only if the
\* counter did not change, fragments held before: by induction every held
\* fragment was supplied with the current counter.
C24_OneMessageInFlight ==
    /\ [](have \subseteq Slots /\ Cardinality(Held(have, frags)) <= MAX_FRAGMENTS)
    /\ [][nextFrag' # nextFrag =>
            /\ counter' # counter =>
                  (counter' = lastCall'.counter /\ Held(have', frags') \subseteq {lastCall'.fragment})
            /\ counter' = counter =>
                  /\ Held(have', frags') \subseteq Held(have, frags) \cup {lastCall'.fragment}
                  /\ lastCall'.fragment \in Held(have', frags') => lastCall'.counter = counter]_vars

\* A call with another counter has just replaced two held fragments by its own
C24_Witness ==
    /\ lastCall.valid
    /\ lastCall.counter # lastCall.counterBefore
    /\ Cardinality(lastCall.heldBefore) = 2
    /\ Held(have, frags) = {lastCall.fragment}
    /\ counter = lastCall.counter

\* C29 - rejected input: a call with fragment_no >= fragment_count or
\* fragment_count > MAX_FRAGMENTS returns None and changes neither have, nor
\* counter, nor a slot, nor drops anything, whatever its counter.
C29_RejectedInput ==
    [][(/\ nextFrag' # nextFrag
        /\ \/ lastCall'.fragment_no >= lastCall'.fragment_count
           \/ lastCall'.fragment_count > MAX_FRAGMENTS) =>
          /\ ~lastCall'.ret.some
          /\ UNCHANGED <<have, counter, frags, dropCount>>]_vars

\* A call with too many fragments and another counter has just been rejected
\* by a reassembler that holds fragments
C29_Witness ==
    /\ lastCall.valid
    /\ lastCall.fragment_count > MAX_FRAGMENTS
    /\ lastCall.fragment_no < MAX_FRAGMENTS
    /\ lastCall.counter # counter
    /\ have # {}
    /\ ~lastCall.ret.some

(***************************************************************************)
(* Further properties of the path table                                    *)
(***************************************************************************)

\* C27 - canonical_path returns: a thread that missed in the probe and is
\* about to request exclusive access to paths holds no read guard of paths,
\* so that its request can be granted.
C27_CanonicalPathReturns ==
    \A t \in Threads : tpc[t] = "else" => t \notin pathsReaders

(***************************************************************************)
(* Further properties of best-root selection                               *)
(***************************************************************************)

\* C28 as stated: after update_best_root, best_root is a root with the
\* greatest last_hello_reply_time_ticks of all roots if there are roots, and
\* None if there are none; the node is online iff there is such a root and its
\* reply is less than two hello intervals old.
C28_BestOfAllRoots ==
    lastOp.op = "root_sync" =>
        /\ IF DOMAIN roots.roots # {}
             THEN /\ best_root.some
                  /\ best_root.v \in DOMAIN roots.roots
                  /\ \A r \in DOMAIN roots.roots : hello[r] <= hello[best_root.v]
             ELSE best_root = None
        /\ roots.online <=>
              (best_root.some /\ now - hello[best_root.v] < 2 * ROOT_HELLO_INTERVAL)

\* C28 amended: after update_best_root, best_root is a root with the greatest
\* last_hello_reply_time_ticks of the roots whose last_hello_reply_time_ticks
\* is above 0, and None if there is no such root, be there roots or not; the
\* node is online iff there is such a root and its reply is less than two
\* hello intervals old.
C28_BestOfRepliedRoots ==
    lastOp.op = "root_sync" =>
        LET replied == {r \in DOMAIN roots.roots : hello[r] > 0}
        IN  /\ IF replied # {}
                 THEN /\ best_root.some
                      /\ best_root.v \in replied
                      /\ \A r \in DOMAIN roots.roots : hello[r] <= hello[best_root.v]
                 ELSE best_root = None
            /\ roots.online <=>
                  (best_root.some /\ now - hello[best_root.v] < 2 * ROOT_HELLO_INTERVAL)

\* Two roots have replied at different times and the selection has just
\* taken the one that replied last
C28_Witness ==
    /\ lastOp.op = "root_sync"
    /\ best_root.some
    /\ \E r \in DOMAIN roots.roots : 0 < hello[r] /\ hello[r] < hello[best_root.v]
    /\ roots.online

(***************************************************************************)
(* Further properties of ingress                                           *)
(***************************************************************************)

\* C30 - arrival path: when a legacy datagram with a parseable header and a
\* valid destination address, for this node or for another, has been handled,
\* the paths table has the path of the pair it arrived on and that path's
\* receive time is the time of the call.
C30_ArrivalPathCanonicalized ==
    [][(/\ lastIngress' # lastIngress
        /\ ~(lastIngress'.data.len > 8 /\ lastIngress'.data.byte8_ff)
        /\ lastIngress'.data.len >= FRAGMENT_HEADER_SIZE
        /\ lastIngress'.data.dest.some) =>
          LET path == Get(paths', PathKeyRef(lastIngress'.source_endpoint,
                                              lastIngress'.source_local_socket))
          IN  /\ path # NoPath
              /\ last_receive'[path] = now]_vars

(***************************************************************************)
(* Properties of the locks                                                 *)
(***************************************************************************)

\* The locks thread t holds when it asks for another
HeldLocks(t) == {g[1] : g \in guards[t]}

\* C25 - lock ordering: a thread that asks for best_root or whois_queue holds
\* no core lock, one that asks for paths holds neither peers nor roots, and
\* one that asks for peers, or upgrades it, holds nothing but roots in read
\* mode.
C25_LockOrdering ==
    \A t \in LockThreads :
        /\ (NextStep(t).k = "acq" /\ NextStep(t).lock \in {"best_root", "whois_queue"}) =>
              guards[t] = {}
        /\ (NextStep(t).k = "acq" /\ NextStep(t).lock = "paths") =>
              HeldLocks(t) \cap {"peers", "roots"} = {}
        /\ (NextStep(t).k = "acq" /\ NextStep(t).lock = "peers") =>
              guards[t] \subseteq {<<"roots", "r">>}
        /\ (NextStep(t).k = "upg" /\ NextStep(t).lock = "peers") =>
              guards[t] \subseteq {<<"roots", "r">>, <<"peers", "u">>}

\* C26 - a thread about to call wire_send for a keepalive, or send_hello for
\* a root, holds no core lock.
C26_NoLockAcrossSend ==
    \A t \in LockThreads : NextStep(t).k = "send" => guards[t] = {}

\* The driver is about to send keepalives after it removed dead paths, while
\* an ingress thread holds paths for a probe
C26_Witness ==
    /\ NextStep("driver") = Send("keepalive")
    /\ lpc["driver"].call = PathServiceLocks(TRUE)
    /\ <<"paths", "r">> \in guards["ingress1"]

(***************************************************************************)
(* Properties of forwarding                                                *)
(***************************************************************************)

\* The latest datagram had a destination other than this node
ForOther(seen) ==
    /\ seen.valid
    /\ ~(seen.data.len > 8 /\ seen.data.byte8_ff)
    /\ seen.data.len >= FRAGMENT_HEADER_SIZE
    /\ seen.data.dest.some
    /\ seen.data.dest.v # SelfIdentity.address

\* C31 - handling a datagram whose destination is another address leaves the
\* reassemblers of all paths, the peers, the roots and the WHOIS queue as they
\* were, and calls forward on no peer when the destination has none.
C31_ForwardingFrame ==
    [][(lastIngress' # lastIngress /\ ForOther(lastIngress')) =>
          /\ reasm' = reasm
          /\ peers' = peers
          /\ roots' = roots
          /\ whois_queue' = whois_queue
          /\ (peers[lastIngress'.data.dest.v] = NoPeer =>
                (lastIngress'.to = NoPeer /\ lastIngress'.result # "forwarded"))]_vars

\* A fragment for an address without a peer arrived at a node that has peers
C31_Witness ==
    /\ ForOther(lastIngress)
    /\ lastIngress.data.fragment
    /\ peers[lastIngress.data.dest.v] = NoPeer
    /\ lastIngress.result = "no peer"
    /\ \E a \in Addresses : peers[a] # NoPeer

(***************************************************************************)
(* Properties of whois                                                     *)
(***************************************************************************)

\* The entry whois finds for an address, or creates
EntryBefore(address) ==
    IF address \in DOMAIN whois_queue THEN whois_queue[address] ELSE WhoisQueueItemDefault

\* C32 - whois(address, packet) adds the packet, if any, to the entry of the
\* address, which it creates if absent; it passes the address to send_whois
\* exactly when the entry's retry_count was 0, and retry_count is then 1; when
\* retry_count was greater than 0 it is left as it was and nothing is sent.
C32_WhoisEnqueuesOrAsks ==
    [][nextPacket' # nextPacket /\ lastWhois'.op = "whois" =>
        LET address == lastWhois'.address
            before == EntryBefore(address)
            after == whois_queue'[address]
        IN  /\ address \in DOMAIN whois_queue'
            /\ \A other \in DOMAIN whois_queue' \ {address} :
                  other \in DOMAIN whois_queue /\ whois_queue'[other] = whois_queue[other]
            /\ IF lastWhois'.packet.some
                 THEN /\ Len(after.waiting_packets) > 0
                      /\ after.waiting_packets[Len(after.waiting_packets)] = lastWhois'.packet.v
                 ELSE after.waiting_packets = before.waiting_packets
            /\ IF before.retry_count = 0
                 THEN whoisSent' = {address} /\ after.retry_count = 1
                 ELSE whoisSent' = {} /\ after.retry_count = before.retry_count]_vars

\* whois was called with a packet for an address that had been asked for
\* already: the packet waits and no request was sent
C32_Witness ==
    /\ lastWhois.op = "whois"
    /\ ~lastWhois.created
    /\ lastWhois.packet.some
    /\ whoisSent = {}
    /\ whois_queue[lastWhois.address].retry_count > 0
    /\ Len(whois_queue[lastWhois.address].waiting_packets) > 1

(***************************************************************************)
(* Properties of scheduler ticks                                           *)
(***************************************************************************)

\* The step is a tick of the scheduler
IsTick == lastOp'.op \in {"root_sync", "tick"} /\ lastTick'.op = "tick"

\* The endpoints the root sets declare for a root
Declared(sets, id) ==
    UNION {m.endpoints.v : m \in {x \in UNION {SeqToSet(sets[n].members) : n \in DOMAIN sets} :
                                      x.identity = id /\ x.endpoints.some}}

\* C33 - on a tick where the root_spam_hello gate fires and the root_hello
\* gate does not, a HELLO round runs only if the node is offline when the
\* round would run, the tick's own best-root selection included.
C33_SpamSuppressed ==
    [][(IsTick /\ lastTick'.spam_gate /\ ~lastTick'.root_hello /\ lastTick'.round) =>
          ~roots'.online]_vars

\* C34 - once a tick has processed the root sets, each root is stored with
\* the endpoints the sets declare for it, and a HELLO round of the tick sends
\* one HELLO to each of them.
C34_HelloCoverage ==
    [][(IsTick /\ ~roots'.sets_modified) =>
          \A r \in DOMAIN roots'.roots :
              /\ roots'.roots[r] = Declared(roots'.sets, r)
              /\ lastTick'.round =>
                    helloSent'[r] = [ep \in Declared(roots'.sets, r) |-> 1]]_vars

(***************************************************************************)
(* Properties of the path-service sweep                                    *)
(***************************************************************************)

\* C35 - when a sweep ends, every path it saw with an invalid socket or
\* classified Dead is gone from the table, a keepalive was sent exactly on the
\* paths with a valid socket classified NeedsKeepalive, none of which was
\* removed, and the paths classified Ok are still in the table and got no
\* keepalive.
C35_SweepOutcome ==
    [][(spc = "remove" /\ spc' = "idle") =>
          /\ \A x \in DOMAIN scanned.seen :
                LET saw == scanned.seen[x]
                IN  /\ (~saw.valid \/ saw.result = "Dead") =>
                          (x \notin paths' /\ x.path \in removedPaths')
                    /\ x.path \in keepalives' <=> (saw.valid /\ saw.result = "NeedsKeepalive")
                    /\ x.path \in keepalives' => (x \in paths' /\ x.path \notin removedPaths')
                    /\ (saw.valid /\ saw.result = "Ok") =>
                          (x \in paths' /\ x.path \notin keepalives')
          /\ keepalives' \subseteq {x.path : x \in DOMAIN scanned.seen}]_vars

\* A sweep has ended that removed a path and sent a keepalive on another
C35_Witness ==
    /\ spc = "idle"
    /\ sweeps > 0
    /\ keepalives # {}
    /\ removedPaths # {}
    /\ \E e \in paths : e.path \in keepalives

\* The path objects a step of the sweep's second loop removes
RemovedNow == {e.path : e \in paths \ paths'}

\* C38 (as claimed) - the sweep removes a path only if no receive was logged
\* on it since the sweep classified it.
C38_RemovesOnlyStillDead ==
    [][(spc = "remove" /\ paths' # paths /\ dead_paths' # dead_paths) =>
          \A p \in RemovedNow : ~ReceivedSince(p)]_vars

\* C38 (amended) - the sweep removes every path its first loop put into
\* dead_paths, one that was received on in between included; the next
\* datagram from that pair gets a new path object.
C38_RemovesWhatWasClassified ==
    [][/\ (spc = "remove" /\ spc' = "idle") =>
             \A x \in DOMAIN scanned.seen :
                 (~scanned.seen[x].valid \/ scanned.seen[x].result = "Dead") =>
                     (x \notin paths' /\ x.path \in removedPaths')
       /\ (lastLocal' # lastLocal /\ lastLocal'.result = "returned") =>
             /\ lastLocal'.path \notin removedPaths
             /\ \E e \in paths' : e.path = lastLocal'.path]_vars

\* The sweep removed a path on which a datagram had arrived after the scan
C38_Witness ==
    /\ spc = "remove"
    /\ \E p \in removedPaths : ReceivedSince(p)

(***************************************************************************)
(* Properties of root sync against its callers                             *)
(***************************************************************************)

\* The identities a rebuild takes from root sets without collisions
ExpectedRoots(sets) ==
    {m.identity : m \in {x \in UNION {SeqToSet(sets[n].members) : n \in DOMAIN sets} :
                            x.endpoints.some /\ x.identity # SelfIdentity}}

\* C36 - no root-set update is lost: once a root sync has finished, either
\* sets_modified is set, so the next sync rebuilds, or the root identities in
\* roots are those of the sets as they are now.
C36_NoLostUpdate ==
    (rpc = "idle" /\ ~roots.sets_modified) => DOMAIN roots.roots = ExpectedRoots(roots.sets)

\* The sets were changed after a root sync had read them and before it stored
\* its roots
C36_Witness ==
    /\ rpc = "swap"
    /\ roots.sets_modified
    /\ DOMAIN synced.new_roots # ExpectedRoots(roots.sets)

\* C37 - best_root is None or a peer that is a key of roots.roots, at every
\* moment of a root sync.
C37_BestRootIsRoot ==
    best_root.some => best_root.v \in DOMAIN roots.roots

(***************************************************************************)
(* Properties of the reassembler across messages                           *)
(***************************************************************************)

\* C39 - Assembled never exposes a stale or unwritten slot: when a call
\* returns an Assembled of length n, each of its n elements is a fragment that
\* was written to its slot with the counter of this call and since the counter
\* last changed, and that was neither dropped nor handed out before.
C39_NoStaleSlot ==
    [][(nextFrag' # nextFrag /\ lastCall'.ret.some) =>
          LET a == AsRef(lastCall'.ret)
          IN  /\ DOMAIN a = 0..(lastCall'.ret.len - 1)
              /\ \A i \in DOMAIN a :
                    /\ a[i] # Uninit
                    /\ written'.with[i] = [some |-> TRUE, v |-> lastCall'.counter]
                    /\ a[i] \in written'.since
                    /\ a[i] \notin written.handed
                    /\ dropCount'[a[i]] = 0]_vars

\* A message of two fragments has just been assembled in slots of which one
\* held a fragment of another counter that was dropped at the counter change
C39_Witness ==
    /\ lastCall.valid
    /\ lastCall.ret.some
    /\ lastCall.ret.len = 2
    /\ dropCount[1] = 1
    /\ written.since = {2, 3}
    /\ written.handed = {2, 3}

\* C40 - at most one assembly per counter: a call that carries the current
\* counter returns no Assembled when an Assembled was already returned since
\* the counter last changed.
C40_OneAssemblyPerCounter ==
    [][(nextFrag' # nextFrag /\ lastCall'.ret.some /\ lastCall'.counter = counter) =>
          ~written.assembled]_vars

====
